---- MODULE Spec2Model ----
(***************************************************************************)
(* Widgeteer: the session server (Server.cpp), the command dispatcher     *)
(* (CommandExecutor.cpp), the selector cache (ElementFinder.cpp), the     *)
(* wait loop (Synchronizer.cpp), the deferred click (EventInjector.cpp)   *)
(* the subscription registry (EventBroadcaster.cpp) and the recorder      *)
(* (ActionRecorder.cpp), as one state machine driven by the single Qt     *)
(* event loop of the UI thread.                                            *)
(*                                                                         *)
(* The UI thread is a stack of frames.  The bottom is the main event      *)
(* loop; a frame is a deferred command/transaction task that is blocked   *)
(* in Synchronizer::wait, or a modal dialog's exec().  Only the top frame *)
(* runs.  Events (socket messages, deferred tasks, timers, deferred       *)
(* deletes) are dispatched only while the top of the stack is pumping the *)
(* event loop.                                                             *)
(***************************************************************************)
EXTENDS Integers, Sequences, FiniteSets, TLC

(* ---------------------------------------------------------------- bounds *)
MaxConns == 2
MaxMsgs == 2
MaxDepth == 2
MaxEntries == 2
MaxWidgets == 3
MaxCached == 2
MaxSlots == 2

(* ------------------------------------------------------------- universes *)
Widgets == {"w1", "dlgBtn"}
DialogButton == "dlgBtn"
Selectors == Widgets \cup {"nonexistent"}
Props == {"text", "value", "geometry"}
Values == {0, 1}
Addrs == {"a1", "a2"}
Null == "null"
Absent == "absent"

\* A text that may end in an index: Str("QLabel", 1) is "QLabel[1]", and
\* Str("item", -1) is "item".
Str(base, idx) == [base |-> base, idx |-> idx]
Text(t) == Str(t, -1)
NoName == Text("")

\* A selector: "@name:" followed by an object name, or a path.
NameSel(name) == [kind |-> "name", name |-> name, path |-> <<>>]
PathSel(path) == [kind |-> "path", name |-> NoName, path |-> path]

\* No find yet.
NoFound == [selector |-> NameSel(NoName), widget |-> 0, hit |-> FALSE, dropped |-> FALSE]

VARIABLES
  alive,               \* widget -> the QWidget object exists
  prop,                \* widget -> property -> value
  cache,               \* ElementFinder::cache_: selector -> Absent | Null | widget
  undoStack,           \* CommandExecutor::undoStack_
  clicks,              \* widget -> pending 10 ms click timers (EventInjector::click)
  stack,               \* the UI thread's nested frames, top last
  taskQueue,           \* QTimer::singleShot(0, ...) tasks, FIFO
  sock,                \* address -> the QWebSocket object allocated there
  socketToClientId,    \* Server::socketToClientId_
  clients,             \* Server::clients_ (clientId -> socket address)
  running,             \* Server::running_
  allowedHosts,        \* Server::allowedHosts_
  apiKey,              \* Server::apiKey_ ("" : none)
  enabled,             \* EventBroadcaster::enabled_
  clientSubscriptions, \* EventBroadcaster::clientSubscriptions_
  eventSubscribers,    \* EventBroadcaster::eventSubscribers_
  uiEventTrackingActive,
  propertyPollTimerActive,
  propertyWatches,
  lifecycleTrackedWidgets, \* Server::lifecycleTrackedWidgets_
  destroyedSlots,      \* widget -> the lambdas connected to its destroyed() signal
  connCount,           \* connections seen so far (the next session id)
  msgCount,            \* messages sent so far (the next request id)
  sent,                \* history: every text frame the server wrote to a socket
  done,                \* history: the last finished execute()
  handled,             \* history: the last inbound message or direct call handled
  staleDeref,          \* history: a destroyed widget was dereferenced
  recording,           \* ActionRecorder::recording_
  actions,             \* ActionRecorder::actions_
  startTime,           \* ActionRecorder::startTime_ (0: a null QDateTime)
  endTime,             \* ActionRecorder::endTime_ (0: a null QDateTime)
  recSignals,          \* history: recordingStarted / recordingStopped emitted, in order
  customCommands,      \* Server::customCommands_ (name -> handler)
  crashed,             \* an exception left the deferred task: the process is gone
  emitted,             \* history: the last EventBroadcaster::emitEvent call
  tree,                \* the application's widgets, in order of creation
  topLevel,            \* QApplication::topLevelWidgets(), in the order it lists them
  finderCache,         \* ElementFinder::cache_ of a finder over tree (selector -> QPointer)
  found,               \* history: the last ElementFinder::find call and its result
  changed              \* history: the application's change of a watched property

vars == <<alive, prop, cache, undoStack, clicks, stack, taskQueue, sock,
          socketToClientId, clients, running, allowedHosts, apiKey, enabled,
          clientSubscriptions, eventSubscribers, uiEventTrackingActive,
          propertyPollTimerActive, propertyWatches, lifecycleTrackedWidgets,
          destroyedSlots, connCount, msgCount, sent, done,
          handled, staleDeref, recording, actions, startTime, endTime, recSignals,
          customCommands, crashed, emitted, tree, topLevel, finderCache,
          found, changed>>

uiVars == <<alive, prop, cache, undoStack, clicks>>
bcVars == <<enabled, clientSubscriptions, eventSubscribers, uiEventTrackingActive,
            propertyPollTimerActive, propertyWatches, lifecycleTrackedWidgets,
            destroyedSlots>>
cfgVars == <<allowedHosts, apiKey>>
recVars == <<recording, actions, startTime, endTime, recSignals>>
finderVars == <<tree, topLevel, finderCache, found>>
extVars == <<customCommands, emitted, finderVars, changed>>

(* ------------------------------------------------------ selector resolver *)

\* ElementFinder::resolveSelector for an "@name:" selector: the live widget of
\* that object name, or null.
ResolveSelector(sel) ==
  IF sel \in Widgets /\ alive[sel] THEN sel ELSE Null

\* ElementFinder::find, the widget returned.  A QPointer entry whose widget was
\* destroyed reads as null and is treated as a miss.
FindWidget(c, sel) ==
  IF c[sel] \in Widgets THEN c[sel] ELSE ResolveSelector(sel)

\* ElementFinder::find, the cache afterwards.
FindCache(c, sel) ==
  IF c[sel] \in Widgets THEN c
  ELSE IF ResolveSelector(sel) # Null
       THEN [c EXCEPT ![sel] = ResolveSelector(sel)]
       ELSE [c EXCEPT ![sel] = Absent]

(* ------------------------------------------------------ command handlers *)
\* The dispatcher's mutable world, threaded through the handlers:
\* m = [prop, undo, cache, clicks].

\* One command: its name and parameters.  For "wait", property holds the
\* condition and value holds timeout_ms, in ticks of the clock.
Step(cmd, target, property, value) ==
  [cmd |-> cmd, target |-> target, property |-> property, value |-> value]

\* What one dispatch call comes to: the world afterwards, the error code of
\* the result ("" : none), whether the call is blocked in Synchronizer::wait,
\* which handler ran, and whether an exception left dispatch() instead of a
\* result.
Outcome(m, err, block) ==
  [m |-> m, err |-> err, block |-> block, by |-> "builtin", escaped |-> FALSE]

ElementNotFound(m, st) ==
  Outcome([m EXCEPT !.cache = FindCache(m.cache, st.target)], "ELEMENT_NOT_FOUND", FALSE)

\* CommandExecutor::recordUndo
recordUndo(u, w, p, old) == Append(u, [w |-> w, p |-> p, old |-> old])

\* CommandExecutor::cmdSetProperty: the old value is pushed on the undo stack,
\* then the property is written.
cmdSetProperty(m, st) ==
  LET w == FindWidget(m.cache, st.target) IN
  IF w = Null THEN ElementNotFound(m, st)
  ELSE Outcome([m EXCEPT !.cache = FindCache(m.cache, st.target),
                         !.undo = recordUndo(m.undo, w, st.property, m.prop[w][st.property]),
                         !.prop[w][st.property] = st.value],
               "", FALSE)

\* CommandExecutor::cmdSetValue on a spin box: the value is written, no undo
\* entry is recorded.
cmdSetValue(m, st) ==
  LET w == FindWidget(m.cache, st.target) IN
  IF w = Null THEN ElementNotFound(m, st)
  ELSE Outcome([m EXCEPT !.cache = FindCache(m.cache, st.target),
                         !.prop[w]["value"] = st.value],
               "", FALSE)

\* EventInjector::click: the click itself is left to a 10 ms single-shot timer.
InjectClick(k, w) == [k EXCEPT ![w] = @ + 1]

\* CommandExecutor::cmdClick
cmdClick(m, st) ==
  LET w == FindWidget(m.cache, st.target) IN
  IF w = Null THEN ElementNotFound(m, st)
  ELSE Outcome([m EXCEPT !.cache = FindCache(m.cache, st.target),
                         !.clicks = InjectClick(m.clicks, w)],
               "", FALSE)

\* Synchronizer::checkCondition for Exists / NotExists; Stable is handled in
\* the loop of wait() and is false here.
checkCondition(c, st) ==
  IF st.property = "stable" THEN FALSE
  ELSE IF st.property = "not_exists"
  THEN FindWidget(c, st.target) = Null
  ELSE FindWidget(c, st.target) # Null

\* A default-constructed QRect: the geometry value 0 is the empty rectangle
\* at the origin, which compares equal to it.
NullRect == 0

\* stability_ms of a wait step.
stabilityMs(st) == st.stabilityMs

\* What a poll of a stable wait sees: the geometry of the widget that find()
\* returns, or NoGeometry if it returns none.
NoGeometry == -1

Observe(c, p, st) ==
  IF FindWidget(c, st.target) = Null THEN NoGeometry ELSE p[FindWidget(c, st.target)]["geometry"]

\* A poll that keeps the start of the interval when the geometry changes.
stablePollNoRestart(s, g, now, ms) ==
  IF g = NoGeometry THEN [last |-> s.last, start |-> s.start, success |-> FALSE]
  ELSE IF s.start = 0 THEN [last |-> g, start |-> now, success |-> FALSE]
  ELSE [last |-> g, start |-> s.start, success |-> now - s.start >= ms]

\* One pass of the Stable branch in the loop of Synchronizer::wait, at
\* elapsed() = now: s holds lastGeometry and stableStartTime (0: not started),
\* g is the geometry observed (NoGeometry: no widget found, nothing is
\* touched).
stablePoll(s, g, now, ms) ==
  IF g = NoGeometry THEN [last |-> s.last, start |-> s.start, success |-> FALSE]
  ELSE IF g = s.last
  THEN IF s.start = 0 THEN [last |-> s.last, start |-> now, success |-> FALSE]
       ELSE [last |-> s.last, start |-> s.start, success |-> now - s.start >= ms]
  ELSE [last |-> g, start |-> 0, success |-> FALSE]

\* A poll loop that only sleeps between polls, with no processEvents.
WaitSpins == FALSE

\* Whether Synchronizer::wait cedes control to the event loop between polls.
WaitYields == TRUE

\* CommandExecutor::cmdWait / Synchronizer::wait up to its first yield.  The
\* loop is entered only while elapsed() < timeoutMs, so with a timeout of zero
\* the body never runs and the wait reports a timeout at once.  Otherwise the
\* condition is checked before any event is processed; unmet, the loop yields.
cmdWait(m, st) ==
  IF st.value <= 0 THEN Outcome(m, "TIMEOUT", FALSE)
  ELSE Outcome([m EXCEPT !.cache = FindCache(m.cache, st.target)], "",
               ~checkCondition(m.cache, st))

\* CommandExecutor::cmdWaitSignal up to loop.exec() in
\* Synchronizer::waitForSignal: the target is resolved, the signal is connected
\* to the quit() of a local event loop, the timeout timer is started.
cmdWaitSignal(m, st) ==
  IF FindWidget(m.cache, st.target) = Null THEN ElementNotFound(m, st)
  ELSE Outcome([m EXCEPT !.cache = FindCache(m.cache, st.target)], "", TRUE)

InvalidCommand(m) == [Outcome(m, "INVALID_COMMAND", FALSE) EXCEPT !.by = "none"]

\* The behaviours of a caller-registered handler: it returns a result, it
\* throws a std::exception, or it throws a value of another type.
Handlers == {"returns", "throws", "throwsOther"}

\* dispatch(), lines 241-251: the registered handler is called inside
\* try { } catch (const std::exception&).
InvokeCustom(m, h) ==
  CASE h = "returns" -> [Outcome(m, "", FALSE) EXCEPT !.by = h]
    [] h = "throws" -> [Outcome(m, "INVOCATION_FAILED", FALSE) EXCEPT !.by = h]
    [] OTHER -> [Outcome(m, "", FALSE) EXCEPT !.by = h, !.escaped = TRUE]

\* The command names that dispatch() itself handles.
BuiltinDispatch == {"click", "set_property", "set_value", "wait", "wait_signal"}

\* A dispatcher that knows the built-in commands only.
dispatchBuiltinOnly(m, st) ==
  CASE st.cmd = "click" -> cmdClick(m, st)
    [] st.cmd = "set_property" -> cmdSetProperty(m, st)
    [] st.cmd = "set_value" -> cmdSetValue(m, st)
    [] st.cmd = "wait" -> cmdWait(m, st)
    [] st.cmd = "wait_signal" -> cmdWaitSignal(m, st)
    [] OTHER -> InvalidCommand(m)

\* CommandExecutor::dispatch: the built-in chain, then the registered
\* handlers, then "Unknown command".
dispatch(m, st) ==
  CASE st.cmd = "click" -> cmdClick(m, st)
    [] st.cmd = "set_property" -> cmdSetProperty(m, st)
    [] st.cmd = "set_value" -> cmdSetValue(m, st)
    [] st.cmd = "wait" -> cmdWait(m, st)
    [] st.cmd = "wait_signal" -> cmdWaitSignal(m, st)
    [] OTHER -> IF st.cmd \in DOMAIN customCommands
                THEN InvokeCustom(m, customCommands[st.cmd])
                ELSE InvalidCommand(m)

\* One undo entry run: the QPointer guard skips a destroyed widget.
RunUndo(p, e) ==
  IF alive[e.w] THEN [p EXCEPT ![e.w][e.p] = e.old] ELSE p

\* CommandExecutor::rollback: pop and run every entry, last pushed first.
RECURSIVE rollback(_, _)
rollback(p, u) ==
  IF u = <<>> THEN p
  ELSE rollback(RunUndo(p, u[Len(u)]), SubSeq(u, 1, Len(u) - 1))

\* CommandExecutor::clearUndoStack
clearUndoStack == <<>>

(* ------------------------------------------------------ event broadcaster *)
\* The two indices as one value: bc = [cs, es] with
\* cs = clientSubscriptions_ (clientId -> list of entries) and
\* es = eventSubscribers_ (eventType -> set of clientIds); a key that the hash
\* does not hold is outside the function's domain.

EventTypes == {"widget_created", "widget_destroyed", "property_changed",
               "focus_changed", "command_executed"}

Filter(target, property) == [target |-> target, property |-> property]
NoFilter == Filter("", "")
Entry(e, f) == [eventType |-> e, filter |-> f]

Without(f, k) == [x \in (DOMAIN f) \ {k} |-> f[x]]
With(f, k, v) == [x \in (DOMAIN f) \cup {k} |-> IF x = k THEN v ELSE f[x]]
Entries(cs, c) == IF c \in DOMAIN cs THEN cs[c] ELSE <<>>
Members(es, e) == IF e \in DOMAIN es THEN es[e] ELSE {}
Range(q) == {q[i] : i \in DOMAIN q}

RECURSIVE RemoveType(_, _)
RemoveType(q, e) ==
  IF q = <<>> THEN <<>>
  ELSE IF Head(q).eventType = e THEN RemoveType(Tail(q), e)
       ELSE <<Head(q)>> \o RemoveType(Tail(q), e)

\* A subscribe that appends without looking for an identical entry.
subscribeAppend(bc, c, e, f) ==
  [cs |-> With(bc.cs, c, Append(Entries(bc.cs, c), Entry(e, f))),
   es |-> With(bc.es, e, Members(bc.es, e) \cup {c})]

\* EventBroadcaster::subscribe
subscribe(bc, c, e, f) ==
  IF Entry(e, f) \in Range(Entries(bc.cs, c)) THEN bc
  ELSE [cs |-> With(bc.cs, c, Append(Entries(bc.cs, c), Entry(e, f))),
        es |-> With(bc.es, e, Members(bc.es, e) \cup {c})]

\* A removal that leaves an emptied subscriber set in the hash.
DropSubscriberKeepEmpty(es, e, c) ==
  IF e \notin DOMAIN es THEN es ELSE [es EXCEPT ![e] = @ \ {c}]

\* One client dropped from one event type's subscriber set; an emptied set is
\* removed from the hash.
DropSubscriber(es, e, c) ==
  IF e \notin DOMAIN es THEN es
  ELSE IF es[e] \ {c} = {} THEN Without(es, e)
       ELSE [es EXCEPT ![e] = @ \ {c}]

\* An unsubscribe that drops every subscription of the client.
unsubscribeWholeClient(bc, c, e) ==
  IF c \notin DOMAIN bc.cs THEN bc
  ELSE [cs |-> Without(bc.cs, c), es |-> [t \in DOMAIN bc.es |-> bc.es[t] \ {c}]]

\* EventBroadcaster::unsubscribe
unsubscribe(bc, c, e) ==
  [cs |-> IF c \notin DOMAIN bc.cs THEN bc.cs
          ELSE IF RemoveType(bc.cs[c], e) = <<>> THEN Without(bc.cs, c)
               ELSE [bc.cs EXCEPT ![c] = RemoveType(@, e)],
   es |-> DropSubscriber(bc.es, e, c)]

RECURSIVE DropAll(_, _, _)
DropAll(es, evs, c) ==
  IF evs = {} THEN es
  ELSE LET e == CHOOSE x \in evs : TRUE
       IN DropAll(DropSubscriber(es, e, c), evs \ {e}, c)

\* EventBroadcaster::unsubscribeAll
unsubscribeAll(bc, c) ==
  IF c \notin DOMAIN bc.cs THEN bc
  ELSE [cs |-> Without(bc.cs, c),
        es |-> DropAll(bc.es, {x.eventType : x \in Range(bc.cs[c])}, c)]

\* EventBroadcaster::removeClient
removeClient(bc, c) == unsubscribeAll(bc, c)

\* EventBroadcaster::hasSubscribers
hasSubscribers(bc, e) == e \in DOMAIN bc.es /\ bc.es[e] # {}

\* EventBroadcaster::matchesFilter for an event whose data carries no path,
\* object name or class (command_executed): an empty filter matches, a filter
\* with a target does not.
matchesCommandExecuted(f) == f = NoFilter \/ f.target = ""

\* EventBroadcaster::emitEvent("command_executed", ...): the recipients.
Recipients(on, bc) ==
  IF ~on \/ ~hasSubscribers(bc, "command_executed") THEN {}
  ELSE {c \in bc.es["command_executed"] :
          /\ c \in DOMAIN bc.cs
          /\ \E x \in Range(bc.cs[c]) :
               x.eventType = "command_executed" /\ matchesCommandExecuted(x.filter)}

\* The data of an event: the fields that matchesFilter reads ("" : absent).
Data(path, objectName, class, property) ==
  [path |-> path, objectName |-> objectName, class |-> class, property |-> property]

\* QString::startsWith / QString::mid over the filter targets in use:
\* "@name:x" -> x, "@class:x" -> x, and the paths below a path.
NameTargets == [t \in {"@name:btn", "@name:w1"} |-> IF t = "@name:btn" THEN "btn" ELSE "w1"]
ClassTargets == [t \in {"@class:QWidget"} |-> "QWidget"]
PathsBelow(t) == IF t = "win" THEN {"win/btn"} ELSE {}

\* The lambda matchesValue of matchesFilter.
matchesValue(value, target) ==
  IF value = "" THEN FALSE
  ELSE IF target \in DOMAIN NameTargets THEN value = NameTargets[target]
  ELSE IF target \in DOMAIN ClassTargets THEN value = ClassTargets[target]
  ELSE value = target \/ value \in PathsBelow(target)

\* EventBroadcaster::matchesFilter
matchesFilter(e, data, f) ==
  IF f = NoFilter THEN TRUE
  ELSE IF f.property # "" /\ e = "property_changed" /\ data.property # f.property THEN FALSE
  ELSE IF f.target = "" THEN TRUE
  ELSE \/ matchesValue(data.path, f.target)
       \/ matchesValue(data.objectName, f.target)
       \/ matchesValue(data.class, f.target)

\* The loop of emitEvent over subscribersFor(eventType): a subscriber with a
\* matching entry is appended once, at the first match.
RECURSIVE Collect(_, _, _, _)
Collect(bc, ids, e, data) ==
  IF ids = {} THEN <<>>
  ELSE LET c == CHOOSE x \in ids : \A y \in ids : x <= y
           matched == /\ c \in DOMAIN bc.cs
                      /\ \E x \in Range(bc.cs[c]) :
                           x.eventType = e /\ matchesFilter(e, data, x.filter)
       IN (IF matched THEN <<c>> ELSE <<>>) \o Collect(bc, ids \ {c}, e, data)

\* An emitEvent without the enabled_ check.
emitEventAlways(on, bc, e, data) ==
  IF ~hasSubscribers(bc, e) THEN <<>> ELSE Collect(bc, bc.es[e], e, data)

\* EventBroadcaster::emitEvent: the recipient list handed to eventReady
\* (empty: the signal is not emitted).
emitEvent(on, bc, e, data) ==
  IF ~on THEN <<>>
  ELSE IF ~hasSubscribers(bc, e) THEN <<>>
  ELSE Collect(bc, bc.es[e], e, data)

\* EventBroadcaster::filtersForEvent: the filters of the entries for e of
\* every subscriber of e, client after client (in the order of their ids),
\* each client's in the order of its list.
RECURSIVE FiltersOf(_, _, _)
FiltersOf(bc, ids, e) ==
  IF ids = {} THEN <<>>
  ELSE LET c == CHOOSE x \in ids : \A y \in ids : x <= y
           own == SelectSeq(Entries(bc.cs, c), LAMBDA x : x.eventType = e)
       IN [i \in DOMAIN own |-> own[i].filter] \o FiltersOf(bc, ids \ {c}, e)

filtersForEvent(bc, e) ==
  IF e \notin DOMAIN bc.es THEN <<>> ELSE FiltersOf(bc, bc.es[e], e)

\* An invalid QVariant.
NoValue == -1

\* A PropertyWatch as refreshPropertyWatches constructs it: no widget, no
\* last value, not initialized.
PropertyWatch(selector, property) ==
  [selector |-> selector, property |-> property, widget |-> Null, lastValue |-> NoValue,
   initialized |-> FALSE]

\* The key under which refreshPropertyWatches remembers a filter it has made
\* a watch for: selector + "|" + property.
WatchKey(selector, property) == selector \o "|" \o property

\* The loop of refreshPropertyWatches: a filter without target or property
\* and a filter whose key was seen are skipped.
RECURSIVE Watches(_, _)
Watches(fs, dedupe) ==
  IF fs = <<>> THEN <<>>
  ELSE LET selector == Head(fs).target
           property == Head(fs).property
       IN IF selector = "" \/ property = "" \/ WatchKey(selector, property) \in dedupe
          THEN Watches(Tail(fs), dedupe)
          ELSE <<PropertyWatch(selector, property)>>
               \o Watches(Tail(fs), dedupe \cup {WatchKey(selector, property)})

\* Server::refreshPropertyWatches: the list of watches is built anew.
refreshPropertyWatches(bc) == Watches(filtersForEvent(bc, "property_changed"), {})

\* Server::updateUiEventTrackingState: [active, timer, watches] afterwards.
needsCoreTracking(on, bc) ==
  on /\ (\/ hasSubscribers(bc, "widget_created")
         \/ hasSubscribers(bc, "widget_destroyed")
         \/ hasSubscribers(bc, "focus_changed")
         \/ hasSubscribers(bc, "property_changed"))

updateUiEventTrackingState(on, bc, active) ==
  [active |-> IF needsCoreTracking(on, bc) /\ ~active THEN TRUE
              ELSE IF ~needsCoreTracking(on, bc) /\ active THEN FALSE
              ELSE active,
   timer |-> on /\ hasSubscribers(bc, "property_changed"),
   watches |-> IF on /\ hasSubscribers(bc, "property_changed")
               THEN refreshPropertyWatches(bc) ELSE <<>>]

BC == [cs |-> clientSubscriptions, es |-> eventSubscribers]

\* Server::registerWidgetLifecycle for the widgets of ws, on
\* t = [tracked, slots]: a widget that is not in the set is inserted and one
\* more lambda is connected to its destroyed() signal.
RECURSIVE registerWidgetLifecycle(_, _)
registerWidgetLifecycle(t, ws) ==
  IF ws = {} THEN t
  ELSE LET w == CHOOSE x \in ws : TRUE IN
       registerWidgetLifecycle(
         IF w \in t.tracked THEN t
         ELSE [tracked |-> t.tracked \cup {w}, slots |-> [t.slots EXCEPT ![w] = @ + 1]],
         ws \ {w})

\* Server::updateUiEventTrackingState with the flag on and the indices bc:
\* when tracking starts every existing widget is registered, when it stops
\* the set is cleared (the lambdas stay connected); then the poll timer and
\* the watches.
SetTracking(on, bc) ==
  LET t == updateUiEventTrackingState(on, bc, uiEventTrackingActive)
      starts == needsCoreTracking(on, bc) /\ ~uiEventTrackingActive
      stops == ~needsCoreTracking(on, bc) /\ uiEventTrackingActive
      l == registerWidgetLifecycle([tracked |-> lifecycleTrackedWidgets,
                                    slots |-> destroyedSlots],
                                   {w \in DOMAIN alive : alive[w]})
  IN /\ starts => \A w \in DOMAIN alive : l.slots[w] <= MaxSlots
     /\ uiEventTrackingActive' = t.active
     /\ propertyPollTimerActive' = t.timer
     /\ propertyWatches' = t.watches
     /\ lifecycleTrackedWidgets' = IF starts THEN l.tracked
                                    ELSE IF stops THEN {} ELSE lifecycleTrackedWidgets
     /\ destroyedSlots' = IF starts THEN l.slots ELSE destroyedSlots

\* The broadcaster and the tracking state after the indices became bc.
SetBroadcaster(bc) ==
  /\ clientSubscriptions' = bc.cs
  /\ eventSubscribers' = bc.es
  /\ SetTracking(enabled, bc)
  /\ UNCHANGED enabled

(* ----------------------------------------------------------- transactions *)

\* A loop that stops at a failed step only when rollback is asked for.
ContinueUnlessRollback(o, rb) == o.err = "" \/ ~rb

\* execute(Transaction), lines 103-117: a step whose result holds "error" ends
\* the loop, whatever rollbackOnFailure says.
Continue(o, rb) == o.err = ""

\* One dispatched step in the log of an execution: its 0-based index, the
\* error code of its result ("" for none) and the handler that ran.
Dispatched(i, err, by) == [step |-> i - 1, err |-> err, by |-> by]

\* execute(Transaction)'s loop from step i (1-based here; the log and the
\* response count steps from 0): dispatch step after step until one fails, one
\* blocks in Synchronizer::wait, an exception leaves dispatch(), or none is
\* left.
RECURSIVE RunSteps(_, _, _, _, _)
RunSteps(m, steps, i, log, rb) ==
  IF i > Len(steps)
  THEN [m |-> m, i |-> i, status |-> "done", err |-> "", log |-> log]
  ELSE LET o == dispatch(m, steps[i]) IN
       IF o.escaped
       THEN [m |-> o.m, i |-> i, status |-> "escaped", err |-> "",
             log |-> Append(log, Dispatched(i, "", o.by))]
       ELSE IF o.block
       THEN [m |-> o.m, i |-> i, status |-> "blocked", err |-> "",
             log |-> Append(log, Dispatched(i, "", o.by))]
       ELSE IF ~Continue(o, rb)
       THEN [m |-> o.m, i |-> i, status |-> "failed", err |-> o.err,
             log |-> Append(log, Dispatched(i, o.err, o.by))]
       ELSE RunSteps(o.m, steps, i + 1, Append(log, Dispatched(i, o.err, o.by)), rb)

\* A response that counts the failing step among the completed ones.
TxResponseCountingFailed(steps, rb, r) ==
  [success |-> r.status = "done",
   completed |-> IF r.status = "done" THEN Len(steps) ELSE r.i,
   total |-> Len(steps),
   rolledBack |-> r.status # "done" /\ rb,
   code |-> ""]

\* The TransactionResponse that execute(Transaction) returns for a finished run.
TxResponse(steps, rb, r) ==
  [success |-> r.status = "done",
   completed |-> IF r.status = "done" THEN Len(steps) ELSE r.i - 1,
   total |-> Len(steps),
   rolledBack |-> r.status # "done" /\ rb,
   code |-> ""]

\* The Response that execute(Command) returns.
CmdResponse(r) ==
  [success |-> r.status = "done", completed |-> 0, total |-> 0, rolledBack |-> FALSE,
   code |-> r.err]

\* The widget properties when execute() returns: a failed transaction with
\* rollbackOnFailure runs the undo stack.
PropAfter(kind, rb, r) ==
  IF kind = "tx" /\ r.status = "failed" /\ rb THEN rollback(r.m.prop, r.m.undo)
  ELSE r.m.prop

\* The undo stack when execute() returns: emptied by rollback() and by a
\* transaction that succeeded, left alone otherwise.
UndoAfter(kind, rb, r) ==
  IF kind = "tx" /\ (r.status = "done" \/ rb) THEN <<>> ELSE r.m.undo

(* ------------------------------------------------------------ session server *)

Host(ip, mapped) == [ip |-> ip, mapped |-> mapped]
Loopback == Host("127.0.0.1", FALSE)
DefaultAllowedHosts == {Loopback, Host("::1", FALSE), Host("localhost", FALSE)}

\* st: "free" (no object), "open", "closing" (close() called, disconnected() not
\* yet emitted), "closed" or "rejected" (deleteLater pending); dl: the
\* event-loop level of the pending deleteLater.
FreeSock == [st |-> "free", conn |-> 0, code |-> "", dl |-> 0]

InitProp == [w \in Widgets |-> [p \in Props |-> 0]]

NoDone == [kind |-> "none", req |-> 0, steps |-> <<>>, rb |-> FALSE,
           resp |-> [success |-> FALSE, completed |-> 0, total |-> 0,
                     rolledBack |-> FALSE, code |-> ""],
           failed |-> FALSE, log |-> <<>>, pre |-> InitProp, post |-> InitProp,
           aliveEnd |-> [w \in Widgets |-> TRUE], polls |-> <<>>]

\* No emitEvent call yet.
NoEmit == [eventType |-> "", data |-> [path |-> "", objectName |-> "", class |-> "",
                                       property |-> ""], recipients |-> <<>>]

\* No property of a watched widget has been changed by the application yet.
NoChange == [widget |-> Null, property |-> "", old |-> NoValue, new |-> NoValue,
             watchers |-> {}]

NoHandled == [addr |-> "", conn |-> 0, id |-> 0, type |-> ""]

Init ==
  /\ alive = [w \in Widgets |-> TRUE]
  /\ prop = InitProp
  /\ cache = [s \in Selectors |-> Absent]
  /\ undoStack = <<>>
  /\ clicks = [w \in Widgets |-> 0]
  /\ stack = <<>>
  /\ taskQueue = <<>>
  /\ sock = [a \in Addrs |-> FreeSock]
  /\ socketToClientId = [a \in Addrs |-> 0]
  /\ clients = <<>>
  /\ running = FALSE
  /\ allowedHosts = DefaultAllowedHosts
  /\ apiKey = ""
  /\ enabled = FALSE
  /\ clientSubscriptions = <<>>
  /\ eventSubscribers = <<>>
  /\ uiEventTrackingActive = FALSE
  /\ propertyPollTimerActive = FALSE
  /\ propertyWatches = <<>>
  /\ lifecycleTrackedWidgets = {}
  /\ destroyedSlots = [w \in Widgets |-> 0]
  /\ connCount = 0
  /\ msgCount = 0
  /\ sent = {}
  /\ done = NoDone
  /\ handled = NoHandled
  /\ staleDeref = FALSE
  /\ recording = FALSE
  /\ actions = <<>>
  /\ startTime = 0
  /\ endTime = 0
  /\ recSignals = <<>>
  /\ customCommands = <<>>
  /\ crashed = FALSE
  /\ emitted = NoEmit
  /\ tree = <<>>
  /\ topLevel = <<>>
  /\ finderCache = <<>>
  /\ found = NoFound
  /\ changed = NoChange

Top == stack[Len(stack)]
Below == SubSeq(stack, 1, Len(stack) - 1)

\* Frame f is blocked in Synchronizer::wait / in the loop.exec() of
\* Synchronizer::waitForSignal.
IsWait(f) == f.kind # "modal" /\ f.steps[f.i].cmd = "wait"
IsSignalWait(f) == f.kind # "modal" /\ f.steps[f.i].cmd = "wait_signal"

\* A frame blocked in Synchronizer::wait runs processEvents between polls; a
\* modal dialog's exec() and the loop.exec() of waitForSignal are event loops.
TopPumps(f) == f.kind = "modal" \/ IsSignalWait(f) \/ WaitYields

\* The event loop is dispatching events: the main loop, or a nested one.  No
\* event is dispatched once an exception has unwound the event loop.
Pumping == ~crashed /\ (IF stack = <<>> THEN TRUE ELSE TopPumps(Top))

\* A frame of the UI thread; elapsed is the QElapsedTimer of the wait it is
\* blocked in.
Frame(kind, t, track) ==
  [kind |-> kind, addr |-> t.addr, origin |-> t.origin, req |-> t.id,
   steps |-> t.steps, rb |-> t.rb, track |-> track, i |-> 0, pre |-> prop, log |-> <<>>,
   began |-> socketToClientId[t.addr], elapsed |-> 0,
   lastGeometry |-> NullRect, stableStartTime |-> 0, polledAt |-> 0, polls |-> <<>>,
   quit |-> FALSE, timedOut |-> FALSE, first |-> ""]

ModalFrame ==
  [kind |-> "modal", addr |-> "", origin |-> 0, req |-> 0, steps |-> <<>>, rb |-> FALSE,
   track |-> Null, i |-> 0, pre |-> InitProp, log |-> <<>>, began |-> 0, elapsed |-> 0,
   lastGeometry |-> NullRect, stableStartTime |-> 0, polledAt |-> 0, polls |-> <<>>,
   quit |-> FALSE, timedOut |-> FALSE, first |-> ""]

\* A text frame written to the socket object at address a: conn is the
\* connection that gets it, origin the connection the request came from, began
\* the session that the request's socket pointer stood for when its execution
\* began.
SentRec(kind, a, req, origin, resp) ==
  [kind |-> kind, addr |-> a, conn |-> sock[a].conn, st |-> sock[a].st, req |-> req,
   origin |-> origin, began |-> origin, resp |-> resp]

Plain(success, code) ==
  [success |-> success, completed |-> 0, total |-> 0, rolledBack |-> FALSE, code |-> code]

\* Server::onEventReady for a command_executed event.
EventFrames(req, resp) ==
  {SentRec("event", clients[c], req, c, resp) :
     c \in Recipients(enabled, BC) \cap DOMAIN clients}

\* The tail of the deferred task: the command_executed event, then the response
\* if the captured socket pointer is still a key of socketToClientId_.
Deliver(f, resp) ==
  sent' = sent \cup EventFrames(f.req, resp)
               \cup (IF socketToClientId[f.addr] # 0
                     THEN {[SentRec("response", f.addr, f.req, f.origin, resp)
                              EXCEPT !.began = f.began]}
                     ELSE {})

\* The commands that ActionRecorder::recordCommand never records.
skipCommands ==
  {"get_tree", "find", "describe", "get_property", "list_properties", "get_actions",
   "screenshot", "exists", "is_visible", "list_objects", "list_custom_commands"}

\* ActionRecorder::recordCommand as the deferred task of handleCommand calls
\* it: one entry per executed command while recording; the deferred task of
\* handleTransaction never calls it.
recordCommand(q, f, resp) ==
  IF recording /\ f.kind = "cmd" /\ f.steps[1].cmd \notin skipCommands
  THEN Append(q, [command |-> f.steps[1].cmd, success |-> resp.success])
  ELSE q

\* Frame f is blocked in the wait of step i, which has the geometry
\* observation g at elapsed() = now behind it.
IsStableWait(f) ==
  f.kind # "modal" /\ f.steps[f.i].cmd = "wait" /\ f.steps[f.i].property = "stable"

Polled(f, g, now) ==
  LET s == stablePoll([last |-> f.lastGeometry, start |-> f.stableStartTime], g, now,
                      stabilityMs(f.steps[f.i]))
  IN [f EXCEPT !.lastGeometry = s.last, !.stableStartTime = s.start, !.polledAt = now,
               !.polls = Append(@, [at |-> now, geometry |-> g])]

\* The frame of an execute() that has just entered a wait at step r.i and
\* yields: the timer of the wait starts, and a stable wait has made its first
\* poll, with lastGeometry and stableStartTime as constructed.
Blocked(f, r) ==
  LET g == [f EXCEPT !.i = r.i, !.log = r.log, !.elapsed = 0, !.lastGeometry = NullRect,
                     !.stableStartTime = 0, !.polledAt = 0, !.polls = <<>>,
                     !.quit = FALSE, !.timedOut = FALSE, !.first = ""]
  IN IF IsStableWait(g) THEN Polled(g, Observe(r.m.cache, r.m.prop, g.steps[g.i]), 0)
     ELSE g

\* execute() ran to r from frame f, above the frames of base: either it is
\* blocked in a wait and stays on the stack, or an exception unwinds the whole
\* stack and ends the process, or it returns and the deferred task finishes.
Settle(base, f, r) ==
  /\ cache' = r.m.cache
  /\ clicks' = r.m.clicks
  /\ IF r.status = "blocked"
     THEN /\ stack' = Append(base, Blocked(f, r))
          /\ prop' = r.m.prop
          /\ undoStack' = r.m.undo
          /\ UNCHANGED <<sent, done, staleDeref, recVars, crashed>>
     ELSE IF r.status = "escaped"
     THEN /\ stack' = <<>>
          /\ crashed' = TRUE
          /\ prop' = r.m.prop
          /\ undoStack' = r.m.undo
          /\ UNCHANGED <<sent, done, staleDeref, recVars>>
     ELSE LET resp == IF f.kind = "tx" THEN TxResponse(f.steps, f.rb, r)
                      ELSE CmdResponse(r)
          IN /\ stack' = base
             /\ prop' = PropAfter(f.kind, f.rb, r)
             /\ undoStack' = UndoAfter(f.kind, f.rb, r)
             /\ staleDeref' = (staleDeref \/ (/\ f.kind = "cmd" /\ r.status = "done"
                                              /\ f.track # Null /\ ~alive[f.track]))
             /\ done' = [kind |-> f.kind, req |-> f.req, steps |-> f.steps, rb |-> f.rb,
                         resp |-> resp, failed |-> r.status = "failed", log |-> r.log,
                         pre |-> f.pre, post |-> PropAfter(f.kind, f.rb, r),
                         aliveEnd |-> alive, polls |-> f.polls]
             /\ actions' = recordCommand(actions, f, resp)
             /\ UNCHANGED <<recording, startTime, endTime, recSignals, crashed>>
             /\ Deliver(f, resp)

World == [prop |-> prop, undo |-> undoStack, cache |-> cache, clicks |-> clicks]

\* A deferred task that does not look whether its socket is still a key.
ExecuteUnchecked(t) ==
  IF t.kind = "tx"
  THEN Settle(stack, Frame("tx", t, Null),
              RunSteps([World EXCEPT !.undo = clearUndoStack], t.steps, 1, <<>>, t.rb))
  ELSE Settle(stack, Frame("cmd", t, Null), RunSteps(World, t.steps, 1, <<>>, t.rb))

\* The deferred task of handleCommand / handleTransaction.  A task whose
\* socket pointer is no key of socketToClientId_ is skipped.  execute(Command)
\* with track_changes resolves the target before it dispatches and keeps the
\* raw pointer; execute(Transaction) clears the undo stack first.
Execute(t) ==
  IF socketToClientId[t.addr] = 0
  THEN UNCHANGED <<prop, cache, undoStack, clicks, stack, sent, done, staleDeref, recVars, crashed>>
  ELSE IF t.kind = "tx"
  THEN Settle(stack, Frame("tx", t, Null),
              RunSteps([World EXCEPT !.undo = clearUndoStack], t.steps, 1, <<>>, t.rb))
  ELSE LET tgt == t.steps[1].target
           m == IF t.track THEN [World EXCEPT !.cache = FindCache(cache, tgt)] ELSE World
           w == IF t.track THEN FindWidget(cache, tgt) ELSE Null
       IN Settle(stack, Frame("cmd", t, w), RunSteps(m, t.steps, 1, <<>>, t.rb))

(* ---------------------------------------------------------------- inputs *)

SetText1 == Step("set_property", "w1", "text", 1)
SetText0 == Step("set_property", "w1", "text", 0)
SetValue1 == Step("set_value", "w1", "value", 1)
ClickDialog == Step("click", "dlgBtn", "", 0)
ClickMissing == Step("click", "nonexistent", "", 0)
WaitGone == Step("wait", "w1", "not_exists", 1)

Msg(type, steps, rb, track, evt, filter) ==
  [type |-> type, id |-> 0, origin |-> 0, steps |-> steps, rb |-> rb, track |-> track,
   evt |-> evt, filter |-> filter]

Commands ==
  {Msg("command", <<SetValue1>>, FALSE, FALSE, "", NoFilter),
   Msg("command", <<ClickDialog>>, FALSE, FALSE, "", NoFilter),
   Msg("command", <<WaitGone>>, FALSE, TRUE, "", NoFilter)}

Transactions ==
  {Msg("transaction", <<>>, TRUE, FALSE, "", NoFilter),
   Msg("transaction", <<SetText1, SetText0>>, TRUE, FALSE, "", NoFilter),
   Msg("transaction", <<SetValue1, ClickMissing>>, TRUE, FALSE, "", NoFilter),
   Msg("transaction", <<SetText1, WaitGone>>, TRUE, FALSE, "", NoFilter)}
  \cup {Msg("transaction", q, rb, FALSE, "", NoFilter) :
          q \in {<<SetText1, ClickMissing, SetValue1>>, <<SetText1, SetText0, ClickMissing>>},
          rb \in BOOLEAN}

Subscriptions ==
  {Msg("subscribe", <<>>, FALSE, FALSE, "widget_created", NoFilter),
   Msg("subscribe", <<>>, FALSE, FALSE, "command_executed", NoFilter),
   Msg("subscribe", <<>>, FALSE, FALSE, "property_changed", Filter("w1", "text")),
   Msg("unsubscribe", <<>>, FALSE, FALSE, "", NoFilter),
   Msg("unsubscribe", <<>>, FALSE, FALSE, "widget_created", NoFilter)}

Garbage == {Msg("garbage", <<>>, FALSE, FALSE, "", NoFilter)}

\* The requests of the execution specification, and the messages of the
\* session specification.
Requests == Commands \cup Transactions
SessionMessages ==
  Subscriptions \cup Garbage \cup {Msg("command", <<SetValue1>>, FALSE, FALSE, "", NoFilter)}

\* The messages of the wait specification: a wait whose condition holds at
\* once with a timeout of zero, one whose condition holds once w1 is gone, one
\* whose condition never holds, and the click that opens the modal dialog.
WaitAbsentNow == Step("wait", "nonexistent", "not_exists", 0)
WaitNever == Step("wait", "nonexistent", "exists", 2)

WaitMessages ==
  {Msg("command", <<st>>, FALSE, FALSE, "", NoFilter) :
     st \in {WaitAbsentNow, WaitGone, WaitNever, ClickDialog}}

\* The messages of the custom command specification.
LoadProject == Step("loadProject", "", "", 0)
CloseWindow == Step("close_window", "", "", 0)

CustomMessages ==
  {Msg("command", <<LoadProject>>, FALSE, FALSE, "", NoFilter),
   Msg("command", <<CloseWindow>>, FALSE, FALSE, "", NoFilter),
   Msg("command", <<SetValue1>>, FALSE, FALSE, "", NoFilter),
   Msg("transaction", <<SetValue1, LoadProject, CloseWindow>>, FALSE, FALSE, "", NoFilter),
   Msg("transaction", <<SetText1, LoadProject>>, TRUE, FALSE, "", NoFilter)}

\* The messages of the protocol specification: subscriptions valid and not,
\* texts that are no request, the recorder, one command and one transaction.
InvalidSubscriptions ==
  {Msg("subscribe", <<>>, FALSE, FALSE, "bogus", NoFilter),
   Msg("subscribe", <<>>, FALSE, FALSE, "", NoFilter),
   Msg("subscribe", <<>>, FALSE, FALSE, "property_changed", NoFilter),
   Msg("subscribe", <<>>, FALSE, FALSE, "property_changed", Filter("w1", "")),
   Msg("subscribe", <<>>, FALSE, FALSE, "widget_created", Filter("w1", "text"))}

NotRequests ==
  {Msg(t, <<>>, FALSE, FALSE, "", NoFilter) : t \in {"unparsable", "", "garbage", "response"}}

Recorder ==
  {Msg(t, <<>>, FALSE, FALSE, "", NoFilter) : t \in {"record_start", "record_stop"}}

ProtocolMessages ==
  InvalidSubscriptions \cup NotRequests \cup Recorder
  \cup {Msg("subscribe", <<>>, FALSE, FALSE, "property_changed", Filter("w1", "text")),
        Msg("unsubscribe", <<>>, FALSE, FALSE, "", NoFilter),
        Msg("command", <<SetText1>>, FALSE, FALSE, "", NoFilter),
        Msg("transaction", <<SetText1>>, TRUE, FALSE, "", NoFilter)}

Hosts == {Loopback, Host("127.0.0.1", TRUE), Host("10.0.0.9", FALSE)}
Tokens == {"", "k", "bad"}

(* --------------------------------------------------------------- handlers *)

\* A handler that runs the request itself, before it returns.
RunInline(t) == Execute(t) /\ UNCHANGED taskQueue

\* QTimer::singleShot(0, this, ...) in handleCommand / handleTransaction: the
\* task is queued, nothing of it runs in the message handler.
Schedule(t) ==
  /\ taskQueue' = Append(taskQueue, t)
  /\ UNCHANGED <<prop, cache, undoStack, clicks, stack, sent, done, staleDeref, recVars, crashed>>

Task(a, msg) ==
  [kind |-> IF msg.type = "transaction" THEN "tx" ELSE "cmd", addr |-> a,
   origin |-> msg.origin, id |-> msg.id, steps |-> msg.steps, rb |-> msg.rb,
   track |-> msg.track]

\* Server::handleCommand / Server::handleTransaction
handleCommand(a, msg) ==
  /\ Schedule(Task(a, msg))
  /\ UNCHANGED bcVars

\* A handler that answers nothing.
NoReply(a, msg, success, code) ==
  UNCHANGED <<sent, prop, cache, undoStack, clicks, stack, taskQueue, done, staleDeref, crashed>>

\* Server::sendResponse from a message handler.
Reply(a, msg, success, code) ==
  /\ sent' = sent \cup {SentRec("response", a, msg.id, msg.origin, Plain(success, code))}
  /\ UNCHANGED <<prop, cache, undoStack, clicks, stack, taskQueue, done, staleDeref, crashed>>

Respond(a, msg, success, code) == Reply(a, msg, success, code) /\ UNCHANGED recVars

\* A start that does not look at recording_.
startAlways(now) ==
  /\ recording' = TRUE
  /\ actions' = <<>>
  /\ startTime' = now
  /\ endTime' = 0
  /\ recSignals' = Append(recSignals, "recordingStarted")

\* ActionRecorder::start at the time now: nothing if already recording, else
\* clear() empties the list and both timestamps, recording begins, the start
\* time is taken and recordingStarted is emitted.
startRecording(now) ==
  IF recording THEN UNCHANGED recVars
  ELSE /\ recording' = TRUE
       /\ actions' = <<>>
       /\ startTime' = now
       /\ endTime' = 0
       /\ recSignals' = Append(recSignals, "recordingStarted")

\* ActionRecorder::stop at the time now
stopRecording(now) ==
  IF ~recording THEN UNCHANGED recVars
  ELSE /\ recording' = FALSE
       /\ endTime' = now
       /\ recSignals' = Append(recSignals, "recordingStopped")
       /\ UNCHANGED <<actions, startTime>>

\* Server::handleRecordStart
handleRecordStart(a, msg) ==
  /\ startRecording(msg.id)
  /\ Reply(a, msg, TRUE, "")
  /\ UNCHANGED bcVars

\* Server::handleRecordStop
handleRecordStop(a, msg) ==
  /\ stopRecording(msg.id)
  /\ Reply(a, msg, TRUE, "")
  /\ UNCHANGED bcVars

\* Server::handleSubscribe
handleSubscribe(a, msg) ==
  LET f == msg.filter
      bad == \/ msg.evt = ""
             \/ msg.evt \notin EventTypes
             \/ /\ f # NoFilter
                /\ IF msg.evt = "property_changed"
                   THEN f.target = "" \/ f.property = ""
                   ELSE f.property # ""
  IN IF bad
     THEN /\ Respond(a, msg, FALSE, IF msg.evt = "" THEN "MISSING_PARAM" ELSE "INVALID_PARAMS")
          /\ UNCHANGED bcVars
     ELSE /\ SetBroadcaster(subscribe(BC, socketToClientId[a], msg.evt, f))
          /\ Respond(a, msg, TRUE, "")

\* Server::handleUnsubscribe
handleUnsubscribe(a, msg) ==
  /\ SetBroadcaster(IF msg.evt = "" THEN unsubscribeAll(BC, socketToClientId[a])
                    ELSE unsubscribe(BC, socketToClientId[a], msg.evt))
  /\ Respond(a, msg, TRUE, "")

\* What a text message is on the wire.  The model's type "unparsable" stands
\* for a text that is no JSON document, and "transaction" for a payload with
\* transaction:true, which clients send without a "type" field.
Parsable(msg) == msg.type # "unparsable"
Transaction(msg) == msg.type = "transaction"
WireType(msg) == IF msg.type \in {"unparsable", "transaction"} THEN "" ELSE msg.type

\* stringToMessageType: the seven message types.
KnownTypes == {"command", "response", "event", "subscribe", "unsubscribe",
               "record_start", "record_stop"}

\* Server::onTextMessageReceived / Server::handleMessage: a text that does not
\* parse is answered with PARSE_ERROR; a payload with transaction:true is
\* routed as a transaction before "type" is looked at; an unknown type, and a
\* known type that the server does not handle, are answered with INVALID_TYPE.
handleMessage(a, msg) ==
  CASE ~Parsable(msg) -> Respond(a, msg, FALSE, "PARSE_ERROR") /\ UNCHANGED bcVars
    [] Transaction(msg) -> handleCommand(a, msg)
    [] WireType(msg) = "command" -> handleCommand(a, msg)
    [] WireType(msg) = "subscribe" -> handleSubscribe(a, msg)
    [] WireType(msg) = "unsubscribe" -> handleUnsubscribe(a, msg)
    [] WireType(msg) = "record_start" -> handleRecordStart(a, msg)
    [] WireType(msg) = "record_stop" -> handleRecordStop(a, msg)
    [] OTHER -> Respond(a, msg, FALSE, "INVALID_TYPE") /\ UNCHANGED bcVars

(* ---------------------------------------------------------------- actions *)

\* Server::start
Start ==
  /\ Pumping /\ ~running
  /\ running' = TRUE
  /\ UNCHANGED <<uiVars, stack, taskQueue, sock, socketToClientId, clients, cfgVars,
                 bcVars, connCount, msgCount, sent, done, handled, staleDeref, recVars, crashed, extVars>>

\* Server::setApiKey
SetApiKey(k) ==
  /\ Pumping /\ apiKey # k
  /\ apiKey' = k
  /\ UNCHANGED <<uiVars, stack, taskQueue, sock, socketToClientId, clients, running,
                 allowedHosts, bcVars, connCount, msgCount, sent, done, handled, staleDeref, recVars, crashed, extVars>>

\* Server::setAllowedHosts
SetAllowedHosts(h) ==
  /\ Pumping /\ allowedHosts # h
  /\ allowedHosts' = h
  /\ UNCHANGED <<uiVars, stack, taskQueue, sock, socketToClientId, clients, running,
                 apiKey, bcVars, connCount, msgCount, sent, done, handled, staleDeref, recVars, crashed, extVars>>

\* Server::setEventBroadcastingEnabled
SetEventBroadcastingEnabled(b) ==
  /\ Pumping /\ enabled # b
  /\ enabled' = b
  /\ SetTracking(b, BC)
  /\ UNCHANGED <<uiVars, stack, taskQueue, sock, socketToClientId, clients, running,
                 cfgVars, clientSubscriptions, eventSubscribers, connCount, msgCount, sent,
                 done, handled, staleDeref, recVars, crashed, extVars>>

\* An admission check that lets every peer address in.
AnyHostAllowed(h) == TRUE

\* Server::isAllowedHost: an IPv4-mapped peer address is looked up without its
\* "::ffff:" prefix.
isAllowedHost(h) ==
  allowedHosts = {} \/ (IF h.mapped THEN Host(h.ip, FALSE) ELSE h) \in allowedHosts

\* Server::validateApiKey
validateApiKey(token) == apiKey = "" \/ token = apiKey

\* Server::onNewConnection, lines 293-312: the two checks.
Admitted(h, token) == isAllowedHost(h) /\ ~(apiKey # "" /\ ~validateApiKey(token))

\* Socket addresses are interchangeable; the allocator hands out the first
\* free one.
FirstFree(a) == sock[a].st = "free" /\ \A b \in Addrs : sock[b].st = "free" => a = b \/ a = "a1"

\* Server::onNewConnection for one pending connection whose QWebSocket was
\* allocated at address a.
NewConnection(a, h, token) ==
  /\ Pumping /\ running /\ connCount < MaxConns
  /\ FirstFree(a)
  /\ connCount' = connCount + 1
  /\ IF Admitted(h, token)
     THEN /\ sock' = [sock EXCEPT ![a] = [st |-> "open", conn |-> connCount + 1,
                                          code |-> "", dl |-> 0]]
          /\ socketToClientId' = [socketToClientId EXCEPT ![a] = connCount + 1]
          /\ clients' = With(clients, connCount + 1, a)
     ELSE /\ sock' = [sock EXCEPT ![a] = [st |-> "rejected", conn |-> connCount + 1,
                                          code |-> "PolicyViolated", dl |-> Len(stack) + 1]]
          /\ UNCHANGED <<socketToClientId, clients>>
  /\ UNCHANGED <<uiVars, stack, taskQueue, running, cfgVars, bcVars, msgCount, sent,
                 done, handled, staleDeref, recVars, crashed, extVars>>

\* QWebSocket::textMessageReceived -> Server::onTextMessageReceived: a text
\* message of the peer arrives on the socket at address a.  The signal is
\* connected only for a socket that passed both checks of onNewConnection.
Receive(a, msg) ==
  /\ Pumping
  /\ sock[a].st = "open"
  /\ msgCount < MaxMsgs
  /\ msgCount' = msgCount + 1
  /\ handled' = [addr |-> a, conn |-> sock[a].conn, id |-> msgCount + 1, type |-> msg.type]
  /\ handleMessage(a, [msg EXCEPT !.id = msgCount + 1, !.origin = sock[a].conn])
  /\ UNCHANGED <<alive, sock, socketToClientId, clients, running, cfgVars, connCount, extVars>>

\* The event loop runs the oldest deferred task.
RunTask ==
  /\ Pumping /\ Len(stack) < MaxDepth
  /\ taskQueue # <<>>
  /\ taskQueue' = Tail(taskQueue)
  /\ Execute(Head(taskQueue))
  /\ UNCHANGED <<alive, sock, socketToClientId, clients, running, cfgVars, bcVars,
                 connCount, msgCount, handled, extVars>>

\* The timeout of the wait that frame f is blocked in.
timeoutMs(f) == f.steps[f.i].value

\* Time passes: the QElapsedTimer of every wait on the stack advances (it is
\* not tracked beyond the wait's timeout, where it no longer matters).
Tick ==
  /\ \E k \in DOMAIN stack : stack[k].kind # "modal" /\ stack[k].elapsed < timeoutMs(stack[k])
  /\ stack' = [k \in DOMAIN stack |->
                IF stack[k].kind # "modal" /\ stack[k].elapsed < timeoutMs(stack[k])
                THEN [stack[k] EXCEPT !.elapsed = @ + 1] ELSE stack[k]]
  /\ UNCHANGED <<uiVars, taskQueue, sock, socketToClientId, clients, running,
                 cfgVars, bcVars, connCount, msgCount, sent, done, handled,
                 staleDeref, recVars, crashed, extVars>>

\* Synchronizer::wait after processEvents and msleep: the loop condition
\* elapsed() < timeoutMs fails, the time is up.
WaitTimeout ==
  /\ stack # <<>> /\ IsWait(Top)
  /\ Top.elapsed >= timeoutMs(Top)
  /\ Settle(Below, Top, [m |-> World, i |-> Top.i, status |-> "failed", err |-> "TIMEOUT",
                         log |-> [Top.log EXCEPT ![Len(Top.log)].err = "TIMEOUT"]])
  /\ UNCHANGED <<alive, taskQueue, sock, socketToClientId, clients, running, cfgVars,
                 bcVars, connCount, msgCount, handled, extVars>>

\* Synchronizer::wait after processEvents and msleep: the loop is entered
\* again, the condition holds at this poll, and execute() goes on.
WaitSatisfied ==
  /\ stack # <<>> /\ IsWait(Top)
  /\ Top.elapsed < timeoutMs(Top)
  /\ checkCondition(cache, Top.steps[Top.i])
  /\ Settle(Below, Top,
            RunSteps([World EXCEPT !.cache = FindCache(cache, Top.steps[Top.i].target)],
                     Top.steps, Top.i + 1, Top.log, Top.rb))
  /\ UNCHANGED <<alive, taskQueue, sock, socketToClientId, clients, running, cfgVars,
                 bcVars, connCount, msgCount, handled, extVars>>

\* Synchronizer::wait with condition stable, after processEvents and msleep:
\* the loop is entered again and the geometry is looked at.  The sleep puts
\* one tick at least between two polls.
StablePoll ==
  /\ stack # <<>> /\ IsStableWait(Top)
  /\ Top.elapsed < timeoutMs(Top)
  /\ Top.elapsed > Top.polledAt
  /\ LET st == Top.steps[Top.i]
         s == stablePoll([last |-> Top.lastGeometry, start |-> Top.stableStartTime],
                         Observe(cache, prop, st), Top.elapsed, stabilityMs(st))
         f == Polled(Top, Observe(cache, prop, st), Top.elapsed)
     IN IF s.success
        THEN Settle(Below, f,
                    RunSteps([World EXCEPT !.cache = FindCache(cache, st.target)],
                             Top.steps, Top.i + 1, Top.log, Top.rb))
        ELSE /\ stack' = Append(Below, f)
             /\ cache' = FindCache(cache, st.target)
             /\ UNCHANGED <<prop, undoStack, clicks, sent, done, staleDeref, recVars, crashed>>
  /\ UNCHANGED <<alive, taskQueue, sock, socketToClientId, clients, running, cfgVars,
                 bcVars, connCount, msgCount, handled, extVars>>

\* The frames after `by` (the signal or the timer) has called quit() on the
\* event loops of the frames in ks; first keeps which of the two came first.
Quit(ks, by) ==
  [k \in DOMAIN stack |->
     IF k \in ks
     THEN [stack[k] EXCEPT !.quit = TRUE,
                           !.timedOut = @ \/ by = "timer",
                           !.first = IF @ = "" THEN by ELSE @]
     ELSE stack[k]]

\* Widget w emits the signal that waitForSignal calls wait for: quit() runs
\* on the event loop of each, as a directly connected slot.
EmitSignal(w) ==
  /\ Pumping
  /\ alive[w]
  /\ \E k \in DOMAIN stack : IsSignalWait(stack[k]) /\ stack[k].steps[stack[k].i].target = w
  /\ stack' = Quit({k \in DOMAIN stack : /\ IsSignalWait(stack[k])
                                         /\ stack[k].steps[stack[k].i].target = w}, "signal")
  /\ UNCHANGED <<uiVars, taskQueue, sock, socketToClientId, clients, running, cfgVars,
                 bcVars, connCount, msgCount, sent, done, handled, staleDeref, recVars,
                 crashed, extVars>>

\* The single-shot timeout timer of the waitForSignal call of frame k fires,
\* in whichever event loop is running: the lambda sets timedOut and calls
\* quit().
SignalTimeout(k) ==
  /\ Pumping
  /\ k \in DOMAIN stack /\ IsSignalWait(stack[k])
  /\ ~stack[k].timedOut
  /\ stack[k].elapsed >= timeoutMs(stack[k])
  /\ stack' = Quit({k}, "timer")
  /\ UNCHANGED <<uiVars, taskQueue, sock, socketToClientId, clients, running, cfgVars,
                 bcVars, connCount, msgCount, sent, done, handled, staleDeref, recVars,
                 crashed, extVars>>

\* loop.exec() returns once quit() was called and the events of the current
\* round are dispatched: success is !timedOut, and execute() goes on or fails.
SignalReturn ==
  /\ stack # <<>> /\ IsSignalWait(Top)
  /\ Top.quit
  /\ Settle(Below, Top,
            IF Top.timedOut
            THEN [m |-> World, i |-> Top.i, status |-> "failed", err |-> "TIMEOUT",
                  log |-> [Top.log EXCEPT ![Len(Top.log)].err = "TIMEOUT"]]
            ELSE RunSteps(World, Top.steps, Top.i + 1, Top.log, Top.rb))
  /\ UNCHANGED <<alive, taskQueue, sock, socketToClientId, clients, running, cfgVars,
                 bcVars, connCount, msgCount, handled, extVars>>

\* The application moves or resizes a widget.
Resize(w) ==
  /\ Pumping
  /\ alive[w]
  /\ prop' = [prop EXCEPT ![w]["geometry"] = 1 - @]
  /\ UNCHANGED <<alive, cache, undoStack, clicks, stack, taskQueue, sock, socketToClientId,
                 clients, running, cfgVars, bcVars, connCount, msgCount, sent, done, handled,
                 staleDeref, recVars, crashed, extVars>>

\* The 10 ms timer of EventInjector::click fires: nothing if the widget is
\* gone; the dialog button's slot opens a modal dialog with exec(); any other
\* widget is toggled.
FireClick(w) ==
  /\ Pumping
  /\ clicks[w] > 0
  /\ ~(alive[w] /\ w = DialogButton) \/ Len(stack) < MaxDepth
  /\ clicks' = [clicks EXCEPT ![w] = @ - 1]
  /\ IF ~alive[w] THEN UNCHANGED <<prop, stack>>
     ELSE IF w = DialogButton THEN stack' = Append(stack, ModalFrame) /\ UNCHANGED prop
     ELSE prop' = [prop EXCEPT ![w]["value"] = 1 - @] /\ UNCHANGED stack
  /\ UNCHANGED <<alive, cache, undoStack, taskQueue, sock, socketToClientId, clients,
                 running, cfgVars, bcVars, connCount, msgCount, sent, done, handled,
                 staleDeref, recVars, crashed, extVars>>

\* The user closes the modal dialog: its exec() returns.
CloseDialog ==
  /\ stack # <<>> /\ Top.kind = "modal"
  /\ stack' = Below
  /\ UNCHANGED <<uiVars, taskQueue, sock, socketToClientId, clients, running,
                 cfgVars, bcVars, connCount, msgCount, sent, done, handled, staleDeref, recVars, crashed, extVars>>

\* What the events about widget w carry: its path, object name and class.
\* The widgets are top-level widgets with an object name, which is their path.
WidgetData(w, property) ==
  Data(w, w, IF w = DialogButton THEN "QPushButton" ELSE "QWidget", property)

\* Server::onEventReady / Server::sendEvent for an event of the given kind
\* about widget w: one text frame to every recipient that clients_ holds; n
\* numbers the emissions of one occasion.
WidgetEventFrames(kind, w, n, recipients) ==
  {SentRec(kind, clients[c], n, c, Plain(TRUE, w)) :
     c \in Range(recipients) \cap DOMAIN clients}

\* The application destroys a widget; every QPointer to it reads null, and
\* destroyed() runs every lambda that registerWidgetLifecycle connected: it
\* removes the widget from the set and emits widget_destroyed.
DestroyWidget(w) ==
  /\ Pumping
  /\ alive[w]
  /\ alive' = [alive EXCEPT ![w] = FALSE]
  /\ cache' = [s \in Selectors |-> IF cache[s] = w THEN Null ELSE cache[s]]
  /\ lifecycleTrackedWidgets' = IF destroyedSlots[w] > 0 THEN lifecycleTrackedWidgets \ {w}
                                 ELSE lifecycleTrackedWidgets
  /\ destroyedSlots' = [destroyedSlots EXCEPT ![w] = 0]
  /\ propertyWatches' = [i \in DOMAIN propertyWatches |->
        IF propertyWatches[i].widget = w THEN [propertyWatches[i] EXCEPT !.widget = Null]
        ELSE propertyWatches[i]]
  /\ sent' = sent \cup UNION {WidgetEventFrames("widget_destroyed", w, n,
                                   emitEvent(enabled, BC, "widget_destroyed", WidgetData(w, ""))) :
                                 n \in 1..destroyedSlots[w]}
  /\ UNCHANGED <<prop, undoStack, clicks, stack, taskQueue, sock, socketToClientId,
                 clients, running, cfgVars, enabled, clientSubscriptions, eventSubscribers,
                 uiEventTrackingActive, propertyPollTimerActive, connCount,
                 msgCount, done, handled, staleDeref, recVars, crashed, extVars>>

\* Server::onClientDisconnected, on QWebSocket::disconnected of the socket at a.
onClientDisconnected(a) ==
  /\ IF socketToClientId[a] # 0
     THEN /\ SetBroadcaster(removeClient(BC, socketToClientId[a]))
          /\ clients' = Without(clients, socketToClientId[a])
          /\ socketToClientId' = [socketToClientId EXCEPT ![a] = 0]
     ELSE UNCHANGED <<bcVars, clients, socketToClientId>>
  /\ sock' = [sock EXCEPT ![a].st = "closed", ![a].dl = Len(stack) + 1]

\* The peer disconnects, or the close that Server::stop asked for completes.
ClientDisconnected(a) ==
  /\ Pumping
  /\ sock[a].st \in {"open", "closing"}
  /\ onClientDisconnected(a)
  /\ UNCHANGED <<uiVars, stack, taskQueue, running, cfgVars, connCount, msgCount, sent, done,
                 handled, staleDeref, recVars, crashed, extVars>>

\* QObject::deleteLater: the socket object is deleted once control is back in
\* an event loop no deeper than the one whose handler asked for it; its address
\* is free for the next allocation.  The deletion is a posted event, as the
\* deferred tasks are, and posted events are delivered in the order of their
\* posting: the tasks of the socket's own messages were posted before it.
DeferredDelete(a) ==
  /\ Pumping
  /\ sock[a].st \in {"closed", "rejected"}
  /\ Len(stack) < sock[a].dl
  /\ \A k \in DOMAIN taskQueue : taskQueue[k].addr # a
  /\ sock' = [sock EXCEPT ![a] = FreeSock]
  /\ UNCHANGED <<uiVars, stack, taskQueue, socketToClientId, clients, running, cfgVars,
                 bcVars, connCount, msgCount, sent, done, handled, staleDeref, recVars, crashed, extVars>>

RECURSIVE RemoveClients(_, _)
RemoveClients(bc, ids) ==
  IF ids = {} THEN bc
  ELSE LET c == CHOOSE x \in ids : TRUE IN RemoveClients(removeClient(bc, c), ids \ {c})

\* Server::stop.  QWebSocket::close emits disconnected() at once when the
\* socket has nothing left to write (onClientDisconnected then runs inside the
\* loop, for the sockets of sync), and later otherwise, after clients_ and
\* socketToClientId_ were cleared.
Stop(sync) ==
  /\ Pumping /\ running
  /\ running' = FALSE
  /\ SetBroadcaster(RemoveClients(BC, {socketToClientId[a] : a \in sync}))
  /\ sock' = [a \in Addrs |->
                IF a \in sync THEN [sock[a] EXCEPT !.st = "closed", !.dl = Len(stack) + 1]
                ELSE IF socketToClientId[a] # 0 THEN [sock[a] EXCEPT !.st = "closing"]
                ELSE sock[a]]
  /\ clients' = <<>>
  /\ socketToClientId' = [a \in Addrs |-> 0]
  /\ UNCHANGED <<uiVars, stack, taskQueue, cfgVars, connCount, msgCount, sent, done,
                 handled, staleDeref, recVars, crashed, extVars>>

\* A wait for w1 to hold still for one tick, within four.
WaitStable ==
  [cmd |-> "wait", target |-> "w1", property |-> "stable", value |-> 4, stabilityMs |-> 1]

StableMessages == {Msg("command", <<WaitStable>>, FALSE, FALSE, "", NoFilter)}

\* Waits for a widget to hold still, while it is moved, resized or destroyed.
NextStable ==
  \/ Start
  \/ \E a \in Addrs : NewConnection(a, Loopback, "")
  \/ \E a \in Addrs, msg \in StableMessages : Receive(a, msg)
  \/ RunTask
  \/ Tick
  \/ StablePoll
  \/ WaitTimeout
  \/ Resize("w1")
  \/ DestroyWidget("w1")

SpecStable == Init /\ [][NextStable]_vars

\* A wait for w1 to emit clicked(), with a timeout of one tick.
WaitClicked == Step("wait_signal", "w1", "clicked()", 1)

SignalMessages == {Msg("command", <<WaitClicked>>, FALSE, FALSE, "", NoFilter)}

\* Waits for a signal: the signal, the timeout timer, and the return.
NextSignal ==
  \/ Start
  \/ \E a \in Addrs : NewConnection(a, Loopback, "")
  \/ \E a \in Addrs, msg \in SignalMessages : Receive(a, msg)
  \/ RunTask
  \/ Tick
  \/ EmitSignal("w1")
  \/ \E k \in 1..MaxDepth : SignalTimeout(k)
  \/ SignalReturn

SpecSignal == Init /\ [][NextSignal]_vars

\* Waits: the clock, the polls, and what the event loop runs between them.
NextWait ==
  \/ Start
  \/ \E a \in Addrs : NewConnection(a, Loopback, "")
  \/ \E a \in Addrs, msg \in WaitMessages : Receive(a, msg)
  \/ RunTask
  \/ Tick
  \/ WaitTimeout
  \/ WaitSatisfied
  \/ \E w \in Widgets : FireClick(w)
  \/ CloseDialog
  \/ \E w \in Widgets : DestroyWidget(w)

SpecWait == Init /\ [][NextWait]_vars

\* The same with what the event loop and the clock guarantee: time passes,
\* a poll loop that may go on goes on, queued tasks and due timers run.
\* Nothing makes the user close a dialog or a peer send a message.
SpecWaitLive ==
  /\ SpecWait
  /\ WF_vars(Tick)
  /\ WF_vars(WaitTimeout)
  /\ WF_vars(WaitSatisfied)
  /\ WF_vars(RunTask)
  /\ WF_vars(\E w \in Widgets : FireClick(w))

\* Requests and their answers: waits, dialogs, and connections that close
\* and are replaced while requests are queued or executing.
NextAnswer ==
  \/ NextWait
  \/ \E a \in Addrs : ClientDisconnected(a)
  \/ \E a \in Addrs : DeferredDelete(a)

SpecAnswer == Init /\ [][NextAnswer]_vars

\* The same with what the event loop and the clock guarantee.
SpecAnswerLive ==
  /\ SpecAnswer
  /\ WF_vars(Tick)
  /\ WF_vars(WaitTimeout)
  /\ WF_vars(WaitSatisfied)
  /\ WF_vars(RunTask)
  /\ WF_vars(\E w \in Widgets : FireClick(w))

\* The messages of the click specification: a click on w1 alone, last in a
\* transaction, and followed by other steps.
ClickW1 == Step("click", "w1", "", 0)

ClickMessages ==
  {Msg("command", <<ClickW1>>, FALSE, FALSE, "", NoFilter),
   Msg("transaction", <<SetText1, ClickW1>>, TRUE, FALSE, "", NoFilter),
   Msg("transaction", <<ClickW1, SetValue1>>, TRUE, FALSE, "", NoFilter),
   Msg("transaction", <<ClickW1, SetText1, ClickMissing>>, TRUE, FALSE, "", NoFilter)}

\* Clicks as steps of transactions, and the timers that deliver them.
NextClick ==
  \/ Start
  \/ \E a \in Addrs : NewConnection(a, Loopback, "")
  \/ \E a \in Addrs, msg \in ClickMessages : Receive(a, msg)
  \/ RunTask
  \/ FireClick("w1")
  \/ DestroyWidget("w1")

SpecClick == Init /\ [][NextClick]_vars

\* The messages of the tracking specification: subscriptions that need the
\* UI event tracking, three property filters of which two differ only in where
\* the '|' stands, and their withdrawal.
TrackingMessages ==
  {Msg("subscribe", <<>>, FALSE, FALSE, "widget_destroyed", NoFilter),
   Msg("subscribe", <<>>, FALSE, FALSE, "command_executed", NoFilter),
   Msg("subscribe", <<>>, FALSE, FALSE, "property_changed", Filter("w1", "text")),
   Msg("subscribe", <<>>, FALSE, FALSE, "property_changed", Filter("w1|x", "text")),
   Msg("subscribe", <<>>, FALSE, FALSE, "property_changed", Filter("w1", "x|text")),
   Msg("unsubscribe", <<>>, FALSE, FALSE, "", NoFilter),
   Msg("unsubscribe", <<>>, FALSE, FALSE, "property_changed", NoFilter)}

\* UI event tracking: subscriptions come and go, clients disconnect,
\* broadcasting is switched on and off.
NextTracking ==
  \/ Start
  \/ \E b \in BOOLEAN : SetEventBroadcastingEnabled(b)
  \/ \E a \in Addrs : NewConnection(a, Loopback, "")
  \/ \E a \in Addrs, msg \in TrackingMessages : Receive(a, msg)
  \/ \E a \in Addrs : ClientDisconnected(a)
  \/ \E a \in Addrs : DeferredDelete(a)
  \/ DestroyWidget("w1")

SpecTracking == Init /\ [][NextTracking]_vars

(* -------------------------------------------------------- property polling *)

\* ElementFinder::find of a finder that has cached nothing, for the selectors
\* that watches use: w1 is reached by its path, by its object name and by its
\* accessible name (the application gave it the accessible name "w1").
WatchSelectors == {"w1", "@name:w1", "@accessible:w1"}
findFresh(sel) == IF sel \in WatchSelectors /\ alive["w1"] THEN "w1" ELSE Null

\* Server::onEventReady / Server::sendEvent for a property_changed event: one
\* text frame, carrying the old and the new value, to every recipient that
\* clients_ holds.
PropertyEventFrames(watch, new, recipients) ==
  {[kind |-> "property_changed", addr |-> clients[c], conn |-> sock[clients[c]].conn,
    st |-> sock[clients[c]].st, req |-> 0, origin |-> c, began |-> c,
    resp |-> Plain(TRUE, watch.property), widget |-> watch.widget,
    selector |-> watch.selector, old |-> watch.lastValue, new |-> new] :
     c \in Range(recipients) \cap DOMAIN clients}

\* One round of the loop of Server::onPropertyPollTimeout: the watch
\* afterwards, and whether a property_changed event is emitted for it.
PollWatch(watch) ==
  LET widget == findFresh(watch.selector)
      w0 == IF widget # watch.widget
            THEN [watch EXCEPT !.widget = widget, !.initialized = FALSE]
            ELSE watch
      valid == w0.widget # Null /\ w0.property \in Props
      currentValue == IF valid THEN prop[w0.widget][w0.property] ELSE NoValue
  IN IF ~valid THEN [watch |-> w0, emits |-> FALSE, before |-> w0, value |-> NoValue]
     ELSE IF ~w0.initialized
          THEN [watch |-> [w0 EXCEPT !.lastValue = currentValue, !.initialized = TRUE],
                emits |-> FALSE, before |-> w0, value |-> currentValue]
     ELSE IF currentValue = w0.lastValue
          THEN [watch |-> w0, emits |-> FALSE, before |-> w0, value |-> currentValue]
     ELSE [watch |-> [w0 EXCEPT !.lastValue = currentValue], emits |-> TRUE,
           before |-> w0, value |-> currentValue]

\* Server::onPropertyPollTimeout: the poll timer fires.
onPropertyPollTimeout ==
  /\ Pumping /\ propertyPollTimerActive
  /\ IF ~enabled \/ ~hasSubscribers(BC, "property_changed")
     THEN UNCHANGED <<propertyWatches, sent>>
     ELSE /\ propertyWatches' = [i \in DOMAIN propertyWatches |->
                                   PollWatch(propertyWatches[i]).watch]
          /\ sent' = sent \cup UNION
               {LET r == PollWatch(propertyWatches[i])
                IN IF r.emits
                   THEN PropertyEventFrames(r.before, r.value,
                          emitEvent(enabled, BC, "property_changed",
                                    WidgetData(r.before.widget, r.before.property)))
                   ELSE {} : i \in DOMAIN propertyWatches}
  /\ UNCHANGED <<uiVars, stack, taskQueue, sock, socketToClientId, clients, running,
                 cfgVars, enabled, clientSubscriptions, eventSubscribers,
                 uiEventTrackingActive, propertyPollTimerActive, lifecycleTrackedWidgets,
                 destroyedSlots, connCount, msgCount, done, handled, staleDeref, recVars,
                 crashed, extVars>>

\* The clients that hold a property_changed subscription whose filter names
\* property p of widget w.
Holders(w, p) ==
  {c \in DOMAIN clientSubscriptions \cap DOMAIN clients :
     \E i \in DOMAIN clientSubscriptions[c] :
        /\ clientSubscriptions[c][i].eventType = "property_changed"
        /\ clientSubscriptions[c][i].filter.property = p
        /\ findFresh(clientSubscriptions[c][i].filter.target) = w}

\* The holders for whom a watch of property p of widget w has taken v as its
\* baseline.
Watchers(w, p, v) ==
  {c \in Holders(w, p) :
     \E i \in DOMAIN clientSubscriptions[c], k \in DOMAIN propertyWatches :
        /\ clientSubscriptions[c][i].eventType = "property_changed"
        /\ clientSubscriptions[c][i].filter.property = p
        /\ propertyWatches[k].selector = clientSubscriptions[c][i].filter.target
        /\ propertyWatches[k].property = p
        /\ propertyWatches[k].widget = w
        /\ propertyWatches[k].initialized
        /\ propertyWatches[k].lastValue = v}

\* The application changes property p of widget w (once in a behaviour).
ChangeProperty(w, p) ==
  /\ Pumping /\ alive[w]
  /\ changed = NoChange
  /\ prop' = [prop EXCEPT ![w][p] = 1 - @]
  /\ changed' = [widget |-> w, property |-> p, old |-> prop[w][p], new |-> 1 - prop[w][p],
                 watchers |-> Watchers(w, p, prop[w][p])]
  /\ UNCHANGED <<alive, cache, undoStack, clicks, stack, taskQueue, sock, socketToClientId,
                 clients, running, cfgVars, bcVars, connCount, msgCount, sent, done, handled,
                 staleDeref, recVars, crashed, customCommands, emitted, finderVars>>

PollMessages ==
  {Msg("subscribe", <<>>, FALSE, FALSE, "property_changed", Filter("w1", "text")),
   Msg("subscribe", <<>>, FALSE, FALSE, "property_changed", Filter("@name:w1", "text")),
   Msg("subscribe", <<>>, FALSE, FALSE, "widget_destroyed", NoFilter),
   Msg("unsubscribe", <<>>, FALSE, FALSE, "", NoFilter)}

\* Property polling: clients subscribe to changes of w1's text, the timer
\* polls, the application changes the text.
PollStep(msgs) ==
  \/ Start
  \/ SetEventBroadcastingEnabled(TRUE)
  \/ \E a \in Addrs : NewConnection(a, Loopback, "")
  \/ \E a \in Addrs, msg \in msgs : Receive(a, msg)
  \/ \E a \in Addrs : ClientDisconnected(a)
  \/ \E a \in Addrs : DeferredDelete(a)
  \/ onPropertyPollTimeout
  \/ ChangeProperty("w1", "text")

NextPoll == PollStep(PollMessages)

SpecPoll == Init /\ [][NextPoll]_vars

\* The poll timer is a repeating QTimer: while it is active it keeps firing.
SpecPollLive == SpecPoll /\ WF_vars(onPropertyPollTimeout)

\* The same, with a subscription whose filter names w1 by its accessible name.
SelectorMessages ==
  PollMessages \cup
  {Msg("subscribe", <<>>, FALSE, FALSE, "property_changed", Filter("@accessible:w1", "text"))}

NextSelector == PollStep(SelectorMessages)

SpecSelector == Init /\ [][NextSelector]_vars

(* ------------------------------------------------------- custom commands *)

\* The names that Server::registerCommand refuses as built-in.  close_window
\* is on that list although dispatch() has no handler for it.
builtinCommands == BuiltinDispatch \cup {"close_window"}

CustomNames == {"loadProject", "set_value", "close_window"}

\* Server::registerCommand: a null handler and a built-in name are refused.
RegisterCommand(name, h) ==
  /\ Pumping
  /\ customCommands' = IF h = Null \/ name \in builtinCommands THEN customCommands
                        ELSE With(customCommands, name, h)
  /\ handled' = [addr |-> "", conn |-> 0, id |-> 0, type |-> "registerCommand"]
  /\ UNCHANGED <<uiVars, stack, taskQueue, sock, socketToClientId, clients, running,
                 cfgVars, bcVars, connCount, msgCount, sent, done, staleDeref, recVars,
                 crashed, emitted, finderVars, changed>>

\* Server::unregisterCommand
UnregisterCommand(name) ==
  /\ Pumping
  /\ customCommands' = Without(customCommands, name)
  /\ handled' = [addr |-> "", conn |-> 0, id |-> 0, type |-> "unregisterCommand"]
  /\ UNCHANGED <<uiVars, stack, taskQueue, sock, socketToClientId, clients, running,
                 cfgVars, bcVars, connCount, msgCount, sent, done, staleDeref, recVars,
                 crashed, emitted, finderVars, changed>>

\* Custom commands: handlers come and go while commands are served.
NextCustom ==
  \/ Start
  \/ \E a \in Addrs : NewConnection(a, Loopback, "")
  \/ \E name \in CustomNames, h \in Handlers \cup {Null} : RegisterCommand(name, h)
  \/ \E name \in CustomNames : UnregisterCommand(name)
  \/ \E a \in Addrs, msg \in CustomMessages : Receive(a, msg)
  \/ RunTask

SpecCustom == Init /\ [][NextCustom]_vars

(* ------------------------------------------- the broadcaster called directly *)

ClientIds == 1..MaxConns
BcTypes == {"widget_created", "property_changed"}
BcFilters == {NoFilter, Filter("win", ""), Filter("@name:btn", "text")}
BcData == {Data("win/btn", "btn", "QPushButton", "text"),
           Data("win", "win", "QWidget", ""),
           Data("", "", "", "")}

\* The indices become bc by a direct call of kind type for client c.
BcCall(type, c, bc) ==
  /\ clientSubscriptions' = bc.cs
  /\ eventSubscribers' = bc.es
  /\ handled' = [addr |-> "", conn |-> c, id |-> 0, type |-> type]
  /\ UNCHANGED <<uiVars, stack, taskQueue, sock, socketToClientId, clients, running,
                 cfgVars, enabled, uiEventTrackingActive, propertyPollTimerActive,
                 propertyWatches, lifecycleTrackedWidgets, destroyedSlots, connCount, msgCount, sent, done, staleDeref, recVars,
                 crashed, extVars>>

BcSubscribe(c, e, f) ==
  /\ Len(Entries(subscribe(BC, c, e, f).cs, c)) <= MaxEntries
  /\ BcCall("bc.subscribe", c, subscribe(BC, c, e, f))

BcUnsubscribe(c, e) == BcCall("bc.unsubscribe", c, unsubscribe(BC, c, e))

BcUnsubscribeAll(c) == BcCall("bc.unsubscribeAll", c, unsubscribeAll(BC, c))

BcRemoveClient(c) == BcCall("bc.removeClient", c, removeClient(BC, c))

\* EventBroadcaster::setEnabled
BcSetEnabled(b) ==
  /\ enabled # b
  /\ enabled' = b
  /\ UNCHANGED <<uiVars, stack, taskQueue, sock, socketToClientId, clients, running,
                 cfgVars, clientSubscriptions, eventSubscribers, uiEventTrackingActive,
                 propertyPollTimerActive, propertyWatches, lifecycleTrackedWidgets,
                 destroyedSlots, connCount, msgCount, sent, done,
                 handled, staleDeref, recVars, crashed, extVars>>

\* EventBroadcaster::emitEvent called with (e, data).
BcEmit(e, data) ==
  /\ emitted' = [eventType |-> e, data |-> data,
                  recipients |-> emitEvent(enabled, BC, e, data)]
  /\ UNCHANGED <<uiVars, stack, taskQueue, sock, socketToClientId, clients, running,
                 cfgVars, bcVars, connCount, msgCount, sent, done, handled, staleDeref,
                 recVars, crashed, customCommands, finderVars, changed>>

\* The subscription registry on its own: any sequence of calls, any event.
NextBroadcaster ==
  \/ \E c \in ClientIds, e \in BcTypes, f \in BcFilters : BcSubscribe(c, e, f)
  \/ \E c \in ClientIds, e \in BcTypes : BcUnsubscribe(c, e)
  \/ \E c \in ClientIds : BcUnsubscribeAll(c)
  \/ \E c \in ClientIds : BcRemoveClient(c)
  \/ \E b \in BOOLEAN : BcSetEnabled(b)
  \/ \E e \in BcTypes, data \in BcData : BcEmit(e, data)

SpecBroadcaster == Init /\ [][NextBroadcaster]_vars

\* A registry call named by whether it changes the indices to bc.
Noting(type, bc) == IF bc = BC THEN type ELSE type \o "!"

RegSubscribe(c, e, f) ==
  /\ Len(Entries(subscribe(BC, c, e, f).cs, c)) <= MaxEntries
  /\ BcCall(Noting("subscribe", subscribe(BC, c, e, f)), c, subscribe(BC, c, e, f))

RegUnsubscribe(c, e) ==
  BcCall(Noting("unsubscribe", unsubscribe(BC, c, e)), c, unsubscribe(BC, c, e))

RegUnsubscribeAll(c) ==
  BcCall(Noting("unsubscribeAll", unsubscribeAll(BC, c)), c, unsubscribeAll(BC, c))

\* Subscriptions made, repeated and withdrawn, with every filter.
NextRegistry ==
  \/ \E c \in ClientIds, e \in BcTypes, f \in BcFilters : RegSubscribe(c, e, f)
  \/ \E c \in ClientIds, e \in BcTypes : RegUnsubscribe(c, e)
  \/ \E c \in ClientIds : RegUnsubscribeAll(c)

SpecRegistry == Init /\ [][NextRegistry]_vars

(* ------------------------------------------ the finder on a widget tree *)

\* Object names and classes of the widgets created: unnamed widgets, widgets
\* that share a name, two classes.
ObjectNames == {NoName, Text("item")}
ClassNames == {"QWidget", "QLabel"}

\* A QWidget: parent 0 is a top-level widget; a destroyed widget stays in the
\* sequence with live = FALSE (its id is never used again).
Widget(parent, objectName, className) ==
  [parent |-> parent, objectName |-> objectName, className |-> className, live |-> TRUE]

LiveWidgets == {w \in DOMAIN tree : tree[w].live}

\* The widget ids 1..n, in order.
Ids(n) == [i \in 1..n |-> i]

\* QObject::children() of p restricted to widgets: in order of creation.
childrenOf(p) ==
  SelectSeq(Ids(Len(tree)), LAMBDA w : tree[w].live /\ tree[w].parent = p)

\* QObject::findChildren, recursively: every child followed by its subtree.
RECURSIVE Subtrees(_)
Subtrees(ws) ==
  IF ws = <<>> THEN <<>>
  ELSE <<Head(ws)>> \o Subtrees(childrenOf(Head(ws))) \o Subtrees(Tail(ws))

findChildren(p, recursive) ==
  IF recursive THEN Subtrees(childrenOf(p)) ELSE childrenOf(p)

\* The first element of q, or 0 (a null pointer) if there is none.
First(q) == IF q = <<>> THEN 0 ELSE Head(q)

\* QObject::findChild<QWidget*>(name, options): the direct children are
\* looked at first, then the subtree of each child in turn.
RECURSIVE FindNamedUnder(_, _)
findChildNamed(p, name, recursive) ==
  LET direct == SelectSeq(childrenOf(p), LAMBDA w : tree[w].objectName = name)
  IN IF direct # <<>> THEN Head(direct)
     ELSE IF recursive THEN FindNamedUnder(childrenOf(p), name)
     ELSE 0

FindNamedUnder(ws, name) ==
  IF ws = <<>> THEN 0
  ELSE IF findChildNamed(Head(ws), name, TRUE) # 0
       THEN findChildNamed(Head(ws), name, TRUE)
       ELSE FindNamedUnder(Tail(ws), name)

\* ElementFinder::findChild for one part of a path
findChild(p, part, recursive) ==
  IF part.idx >= 0
  THEN LET m == SelectSeq(findChildren(p, recursive),
                          LAMBDA w : \/ tree[w].objectName = Text(part.base)
                                     \/ tree[w].className = part.base)
       IN IF part.idx < Len(m) THEN m[part.idx + 1] ELSE 0
  ELSE IF part = Text("*") THEN First(findChildren(p, recursive))
  ELSE IF findChildNamed(p, part, recursive) # 0 THEN findChildNamed(p, part, recursive)
  ELSE First(SelectSeq(findChildren(p, recursive),
                       LAMBDA w : Text(tree[w].className) = part))

\* ElementFinder::pathFor, one part: the object name, or for an unnamed
\* widget the class name, with its index among the siblings of that class if
\* there are several.
partFor(w) ==
  IF tree[w].objectName # NoName THEN tree[w].objectName
  ELSE IF tree[w].parent = 0 THEN Text(tree[w].className)
  ELSE LET same == SelectSeq(childrenOf(tree[w].parent),
                             LAMBDA x : tree[x].className = tree[w].className)
       IN IF Len(same) > 1
          THEN Str(tree[w].className, (CHOOSE i \in DOMAIN same : same[i] = w) - 1)
          ELSE Text(tree[w].className)

\* ElementFinder::pathFor: the parts from the top-level widget down, which
\* the code joins with '/'.
RECURSIVE pathFor(_)
pathFor(w) ==
  IF w = 0 THEN <<>>
  ELSE pathFor(tree[w].parent) \o <<partFor(w)>>

\* The steps of ElementFinder::byPath below the top-level widget.
RECURSIVE Navigate(_, _)
Navigate(current, parts) ==
  IF parts = <<>> THEN current
  ELSE LET direct == findChild(current, Head(parts), FALSE)
           child == IF direct # 0 THEN direct ELSE findChild(current, Head(parts), TRUE)
       IN IF child = 0 THEN 0 ELSE Navigate(child, Tail(parts))

\* ElementFinder::byPath without a root, for the top-level widgets tops.
byPath(path, tops) ==
  LET parts == SelectSeq(path, LAMBDA x : x # NoName)
      roots == SelectSeq(tops, LAMBDA w : \/ tree[w].objectName = Head(parts)
                                          \/ Text(tree[w].className) = Head(parts))
  IN IF parts = <<>> \/ roots = <<>> THEN 0
     ELSE Navigate(Head(roots), Tail(parts))

\* ElementFinder::byName without a root
RECURSIVE byName(_, _)
byName(name, tops) ==
  IF tops = <<>> THEN 0
  ELSE IF tree[Head(tops)].objectName = name THEN Head(tops)
  ELSE IF findChildNamed(Head(tops), name, TRUE) # 0
       THEN findChildNamed(Head(tops), name, TRUE)
  ELSE byName(name, Tail(tops))

\* ElementFinder::resolveSelector for the two kinds of selector
resolveSelector(sel, tops) ==
  IF sel.kind = "name" THEN byName(sel.name, tops) ELSE byPath(sel.path, tops)

\* The value of a cache entry read through its QPointer: 0 once the widget
\* is destroyed.
Cached(sel) == IF sel \in DOMAIN finderCache THEN finderCache[sel] ELSE 0

\* The orders in which topLevelWidgets() can list the widgets of T: it
\* walks a hash set of pointers.
TopOrders(T) ==
  {q \in [1..Cardinality(T) -> T] : \A i, j \in DOMAIN q : q[i] = q[j] => i = j}

\* ElementFinder::find(sel): a live cached widget is returned as it is; a
\* dead entry is removed; otherwise the selector is resolved and a widget
\* that is found is cached.
Find(sel) ==
  /\ sel \in DOMAIN finderCache \/ Cardinality(DOMAIN finderCache) < MaxCached
  /\ LET r == resolveSelector(sel, topLevel) IN
     IF Cached(sel) # 0
     THEN /\ found' = [selector |-> sel, widget |-> Cached(sel), hit |-> TRUE,
                        dropped |-> FALSE]
          /\ UNCHANGED finderCache
     ELSE /\ found' = [selector |-> sel, widget |-> r, hit |-> FALSE,
                        dropped |-> sel \in DOMAIN finderCache]
          /\ finderCache' = IF r # 0 THEN With(finderCache, sel, r)
                             ELSE Without(finderCache, sel)
  /\ UNCHANGED <<uiVars, stack, taskQueue, sock, socketToClientId, clients, running,
                 cfgVars, bcVars, connCount, msgCount, sent, done, handled, staleDeref,
                 recVars, crashed, customCommands, emitted, tree, topLevel, changed>>

\* FindResult::resolvedPath of ElementFinder::find: the selector as it was
\* given on a cache hit, the path of the widget after a resolution, empty
\* when nothing is found.
resolvedPath(sel, widget, hit) ==
  IF widget = 0 THEN PathSel(<<>>)
  ELSE IF hit THEN sel
  ELSE PathSel(pathFor(widget))

\* ElementFinder::invalidateCache
InvalidateCache ==
  /\ finderCache # <<>>
  /\ finderCache' = <<>>
  /\ UNCHANGED <<uiVars, stack, taskQueue, sock, socketToClientId, clients, running,
                 cfgVars, bcVars, connCount, msgCount, sent, done, handled, staleDeref,
                 recVars, crashed, customCommands, emitted, tree, topLevel, found, changed>>

\* The application creates a widget under parent p (0: a top-level widget).
\* The set of all widgets grows, and may list its elements in a new order.
CreateWidget(p, name, class) ==
  /\ Len(tree) < MaxWidgets
  /\ p = 0 \/ p \in LiveWidgets
  /\ tree' = Append(tree, Widget(p, name, class))
  /\ topLevel' \in TopOrders(Range(topLevel) \cup (IF p = 0 THEN {Len(tree) + 1} ELSE {}))
  /\ UNCHANGED <<uiVars, stack, taskQueue, sock, socketToClientId, clients, running,
                 cfgVars, bcVars, connCount, msgCount, sent, done, handled, staleDeref,
                 recVars, crashed, customCommands, emitted, finderCache, found, changed>>

\* Pointers kept raw: the cache entries of destroyed widgets stay as they are.
RawPointers(c, dead) == c

\* QPointer: every cache entry of a destroyed widget reads null.
QPointers(c, dead) == [x \in DOMAIN c |-> IF c[x] \in dead THEN 0 ELSE c[x]]

\* The application deletes widget w: its children are deleted with it.
DeleteWidget(w) ==
  /\ w \in LiveWidgets
  /\ LET dead == {w} \cup Range(Subtrees(childrenOf(w))) IN
     /\ tree' = [x \in DOMAIN tree |-> IF x \in dead THEN [tree[x] EXCEPT !.live = FALSE]
                                         ELSE tree[x]]
     /\ topLevel' = SelectSeq(topLevel, LAMBDA x : x \notin dead)
     /\ finderCache' = QPointers(finderCache, dead)
  /\ UNCHANGED <<uiVars, stack, taskQueue, sock, socketToClientId, clients, running,
                 cfgVars, bcVars, connCount, msgCount, sent, done, handled, staleDeref,
                 recVars, crashed, customCommands, emitted, found, changed>>

\* The selectors asked for: the path of every widget, the second child
\* called "item" of every widget, and the object names.
FinderSelectors ==
  {PathSel(pathFor(w)) : w \in LiveWidgets}
  \cup {PathSel(pathFor(w) \o <<Str("item", 1)>>) : w \in LiveWidgets}
  \cup {NameSel(n) : n \in ObjectNames \ {NoName}}

\* A finder over a widget tree that grows and shrinks.
NextFinder ==
  \/ \E p \in 0..MaxWidgets, name \in ObjectNames, class \in ClassNames :
       CreateWidget(p, name, class)
  \/ \E w \in 1..MaxWidgets : DeleteWidget(w)
  \/ \E sel \in FinderSelectors : Find(sel)
  \/ InvalidateCache

SpecFinder == Init /\ [][NextFinder]_vars

\* Command and transaction execution: sessions of any peer, requests, the
\* nested event loops of waits and modal dialogs, widgets that go away.
Next ==
  \/ Start
  \/ \E a \in Addrs, h \in Hosts, token \in Tokens : NewConnection(a, h, token)
  \/ \E a \in Addrs, msg \in Requests : Receive(a, msg)
  \/ RunTask
  \/ Tick
  \/ WaitTimeout
  \/ WaitSatisfied
  \/ \E w \in Widgets : FireClick(w)
  \/ CloseDialog
  \/ \E w \in Widgets : DestroyWidget(w)
  \/ \E a \in Addrs : ClientDisconnected(a)
  \/ \E a \in Addrs : DeferredDelete(a)

Spec == Init /\ [][Next]_vars

\* Session life cycle: configuration, admission, subscriptions, disconnects
\* and Server::stop.
NextSession ==
  \/ Start
  \/ \E k \in {"", "k"} : SetApiKey(k)
  \/ \E h \in {{}, DefaultAllowedHosts} : SetAllowedHosts(h)
  \/ \E b \in BOOLEAN : SetEventBroadcastingEnabled(b)
  \/ \E a \in Addrs, h \in Hosts, token \in Tokens : NewConnection(a, h, token)
  \/ \E a \in Addrs, msg \in SessionMessages : Receive(a, msg)
  \/ RunTask
  \/ \E a \in Addrs : ClientDisconnected(a)
  \/ \E a \in Addrs : DeferredDelete(a)
  \/ \E sync \in SUBSET {a \in Addrs : socketToClientId[a] # 0} : Stop(sync)

SpecSession == Init /\ [][NextSession]_vars

\* The wire protocol: one kind of peer, every kind of message.
NextProtocol ==
  \/ Start
  \/ \E b \in BOOLEAN : SetEventBroadcastingEnabled(b)
  \/ \E a \in Addrs : NewConnection(a, Loopback, "")
  \/ \E a \in Addrs, msg \in ProtocolMessages : Receive(a, msg)
  \/ RunTask

SpecProtocol == Init /\ [][NextProtocol]_vars

(* ----------------------------------------------------------------- claims *)

\* The (widget, property) pairs that the steps of q before its n-th write.
Writes(st) ==
  IF st.cmd = "set_property" THEN {<<st.target, st.property>>}
  ELSE IF st.cmd = "set_value" THEN {<<st.target, "value">>}
  ELSE {}
WrittenBefore(q, n) == UNION {Writes(q[k]) : k \in 1..(n - 1)}

\* The last finished execute() was a transaction with rollbackOnFailure in
\* which a step failed.
RolledBackTx == done.kind = "tx" /\ done.rb /\ done.failed

\* C1: when a transaction with rollbackOnFailure=true ends with a failed step,
\* every property written by a step before the failing one, on a widget that
\* still exists, has the value it had when the transaction started, whichever
\* command wrote it.
C1_RollbackRestoresEverything ==
  RolledBackTx =>
    \A x \in WrittenBefore(done.steps, Len(done.log)) :
      done.aliveEnd[x[1]] => done.post[x[1]][x[2]] = done.pre[x[1]][x[2]]

\* C2: the step that handles an inbound command or transaction message only
\* appends one deferred task for it: widgets, undo stack, frames, responses and
\* finished executions are as before; and an execution finishes only from the
\* head of the task queue or from a frame of the UI thread.
C2_HandlerOnlySchedules ==
  [][/\ (handled' # handled /\ handled'.type \in {"command", "transaction"}) =>
          /\ UNCHANGED <<uiVars, stack, sent, done, staleDeref>>
          /\ Len(taskQueue') = Len(taskQueue) + 1
          /\ SubSeq(taskQueue', 1, Len(taskQueue)) = taskQueue
          /\ taskQueue'[Len(taskQueue')].id = handled'.id
     /\ done' # done =>
          \/ taskQueue # <<>> /\ Head(taskQueue).id = done'.req /\ handled' = handled
          \/ stack # <<>> /\ Top.req = done'.req /\ handled' = handled]_vars

C2_Witness ==
  /\ taskQueue # <<>>
  /\ handled.type = "command"
  /\ taskQueue[Len(taskQueue)].id = handled.id
  /\ done.kind = "none" /\ prop = InitProp

C4_NoResponseAfterDisconnect ==
  \A r \in sent :
    (r.kind = "response" /\ r.began = r.origin) => r.conn = r.origin /\ r.st = "open"

\* C5: no destroyed widget is ever dereferenced.
C5_NoStaleDereference == ~staleDeref

\* The logs of the transactions in progress and of the last finished one.
TxLogs ==
  {<<stack[i].steps, stack[i].log>> : i \in {j \in DOMAIN stack : stack[j].kind = "tx"}}
  \cup (IF done.kind = "tx" THEN {<<done.steps, done.log>>} ELSE {})

\* C6: the steps of a transaction are dispatched in list order, each once, and
\* a step whose result is an error is the last one dispatched, with or without
\* rollbackOnFailure.
C6_SequentialStopAtFailure ==
  \A x \in TxLogs :
    /\ Len(x[2]) <= Len(x[1])
    /\ \A k \in DOMAIN x[2] :
         /\ x[2][k].step = k - 1
         /\ x[2][k].err # "" => k = Len(x[2])

C6_Witness ==
  /\ done.kind = "tx" /\ ~done.rb /\ done.failed
  /\ Len(done.log) = 2 /\ Len(done.steps) = 3
  /\ done.log[2].err = "ELEMENT_NOT_FOUND"

\* The steps of the last finished execution whose result was an error.
FailedSteps == {k \in DOMAIN done.log : done.log[k].err # ""}

\* C7: the response of a transaction has totalSteps = the number of steps
\* submitted; if step k (0-based) is the first to fail, success=false,
\* completedSteps=k and rollbackPerformed = rollbackOnFailure; if none fails,
\* success=true, completedSteps=totalSteps and rollbackPerformed=false.
C7_ResponseFields ==
  done.kind = "tx" =>
    /\ done.resp.total = Len(done.steps)
    /\ IF FailedSteps # {}
       THEN /\ ~done.resp.success
            /\ \E k \in FailedSteps :
                 /\ \A j \in FailedSteps : k <= j
                 /\ done.resp.completed = done.log[k].step
            /\ done.resp.rolledBack = done.rb
       ELSE /\ done.resp.success
            /\ done.resp.completed = done.resp.total
            /\ ~done.resp.rolledBack
            /\ Len(done.log) = Len(done.steps)

C7_Witness ==
  /\ done.kind = "tx" /\ done.rb
  /\ FailedSteps = {3}
  /\ done.resp.completed = 2 /\ done.resp.rolledBack

\* C8: when a transaction with rollbackOnFailure=true fails after steps that
\* are all set_property, each property they wrote on a widget that still
\* exists has the value it had when the transaction started.
C8_SetPropertyRollbackRestores ==
  (/\ RolledBackTx
   /\ \A k \in 1..(Len(done.log) - 1) : done.steps[k].cmd = "set_property") =>
    \A x \in WrittenBefore(done.steps, Len(done.log)) :
      done.aliveEnd[x[1]] => done.post[x[1]][x[2]] = done.pre[x[1]][x[2]]

\* The peer address is on the allow-list: an IPv4-mapped IPv6 address is the
\* IPv4 address it maps.
OnAllowList(h) == \E g \in allowedHosts : g.ip = h.ip

\* What C9 asks to be turned away.
MustReject(h, token) ==
  \/ allowedHosts # {} /\ ~OnAllowList(h)
  \/ apiKey # "" /\ token # apiKey

\* C9: a connection from a peer that is not on a non-empty allow-list, or with
\* a missing or wrong token while a key is set, ends closed with the
\* policy-violation code and gets no session; a connection becomes a session
\* only if it passes both checks; and no message is handled, scheduled or
\* answered on a connection that was turned away.
C9_RejectedNeverServed ==
  [][/\ \A a \in Addrs, h \in Hosts, token \in Tokens :
          NewConnection(a, h, token) =>
            IF MustReject(h, token)
            THEN /\ sock'[a].st = "rejected" /\ sock'[a].code = "PolicyViolated"
                 /\ socketToClientId' = socketToClientId /\ clients' = clients
            ELSE /\ sock'[a].st = "open"
                 /\ socketToClientId'[a] = sock'[a].conn
     /\ \A a \in Addrs :
          sock'[a].st = "rejected" =>
            /\ socketToClientId'[a] = 0
            /\ \A c \in DOMAIN clients' : c # sock'[a].conn
            /\ handled'.conn # sock'[a].conn
            /\ \A r \in sent' : r.conn # sock'[a].conn
            /\ \A k \in DOMAIN taskQueue' : taskQueue'[k].origin # sock'[a].conn]_vars

C9_Witness ==
  \E a \in Addrs :
    /\ sock[a].st = "rejected" /\ sock[a].conn = 2
    /\ apiKey = "k" /\ allowedHosts = {}
    /\ handled.conn = 1

\* The connection with session id c has closed.
Closed(c) == \A a \in Addrs : sock[a].conn = c => sock[a].st = "closed"

\* C10: once a client's connection has closed, by the client or by
\* Server::stop, the broadcaster holds no subscription of its id in either
\* index, the registry has no entry for it, and with no subscriber left event
\* tracking and the property poll timer are off.
C10_CleanupAfterClose ==
  /\ \A c \in 1..connCount :
       Closed(c) =>
         /\ c \notin DOMAIN clientSubscriptions
         /\ \A e \in DOMAIN eventSubscribers : c \notin eventSubscribers[e]
         /\ c \notin DOMAIN clients
  /\ (\A c \in DOMAIN clientSubscriptions : Closed(c)) =>
       ~uiEventTrackingActive /\ ~propertyPollTimerActive

\* C11: after any sequence of subscribe, unsubscribe, unsubscribeAll and
\* removeClient calls, a client is in the subscriber set of an event type
\* exactly when its subscription list holds an entry of that type, and neither
\* hash keeps an empty list or an empty set.
C11_IndicesAgree ==
  /\ \A c \in ClientIds, t \in EventTypes :
       (t \in DOMAIN eventSubscribers /\ c \in eventSubscribers[t])
         <=> (c \in DOMAIN clientSubscriptions
              /\ \E x \in Range(clientSubscriptions[c]) : x.eventType = t)
  /\ DOMAIN clientSubscriptions \subseteq ClientIds
  /\ DOMAIN eventSubscribers \subseteq EventTypes
  /\ \A c \in DOMAIN clientSubscriptions : clientSubscriptions[c] # <<>>
  /\ \A t \in DOMAIN eventSubscribers : eventSubscribers[t] # {}

\* An unsubscribe has just emptied one event type's subscriber set while
\* the client keeps an entry of another type and another client is subscribed.
C11_Witness ==
  /\ handled.type = "bc.unsubscribe"
  /\ DOMAIN clientSubscriptions = ClientIds
  /\ Len(clientSubscriptions[handled.conn]) = 1
  /\ Cardinality(DOMAIN eventSubscribers) = 1

\* C12: emitEvent(eventType, data) lists a client if and only if broadcasting
\* is enabled and the client holds a subscription of that type whose filter
\* matches the data; no client is listed twice; nothing is delivered when
\* broadcasting is disabled or the type has no subscriber.
C12_EmitRecipients ==
  [][\A e \in BcTypes, data \in BcData :
       BcEmit(e, data) =>
         LET r == emitted'.recipients IN
         /\ \A c \in ClientIds :
              (c \in Range(r)) <=>
                (/\ enabled
                 /\ \E x \in Range(Entries(clientSubscriptions, c)) :
                      x.eventType = e /\ matchesFilter(e, data, x.filter))
         /\ \A i, j \in DOMAIN r : r[i] = r[j] => i = j
         /\ (~enabled \/ ~hasSubscribers(BC, e)) => r = <<>>]_vars

\* An event went to one client only, two of whose filters match it, while the
\* other client's subscription of the same type does not match.
C12_Witness ==
  /\ Len(emitted.recipients) = 1
  /\ LET c == emitted.recipients[1] IN
     /\ Cardinality({x \in Range(Entries(clientSubscriptions, c)) :
                       /\ x.eventType = emitted.eventType
                       /\ matchesFilter(emitted.eventType, emitted.data, x.filter)}) = 2
     /\ \E d \in ClientIds \ {c} :
          /\ d \in Members(eventSubscribers, emitted.eventType)
          /\ \A x \in Range(Entries(clientSubscriptions, d)) :
               x.eventType = emitted.eventType
                 => ~matchesFilter(emitted.eventType, emitted.data, x.filter)

\* The socket at a is handed the subscribe message msg.
Subscribing(a, msg) == msg \in ProtocolMessages /\ msg.type = "subscribe" /\ Receive(a, msg)

\* C13: a subscribe message for property_changed is rejected, and registers
\* nothing, unless its filter has both a target and a property; an absent or
\* empty filter included.
C13_PropertyChangedNeedsFilter ==
  [][\A a \in Addrs, msg \in ProtocolMessages :
       (/\ Subscribing(a, msg)
        /\ msg.evt = "property_changed"
        /\ (msg.filter.target = "" \/ msg.filter.property = ""))
       => /\ \E r \in sent' \ sent : r.req = msgCount + 1 /\ ~r.resp.success
          /\ UNCHANGED <<clientSubscriptions, eventSubscribers>>]_vars

\* C14: a subscribe message whose event type is not one of the five event
\* types is answered with success=false and INVALID_PARAMS and leaves the
\* indices and the tracking state as they were.
C14_UnsupportedEventType ==
  [][\A a \in Addrs, msg \in ProtocolMessages :
       (Subscribing(a, msg) /\ msg.evt \notin EventTypes)
       => /\ \E r \in sent' \ sent :
               r.req = msgCount + 1 /\ ~r.resp.success /\ r.resp.code = "INVALID_PARAMS"
          /\ UNCHANGED bcVars]_vars

\* ErrorCode (Protocol.h): the thirteen codes.
ErrorCodes ==
  {"ELEMENT_NOT_FOUND", "ELEMENT_NOT_VISIBLE", "ELEMENT_NOT_ENABLED", "PROPERTY_NOT_FOUND",
   "PROPERTY_READ_ONLY", "INVALID_SELECTOR", "INVALID_COMMAND", "INVALID_PARAMS", "TIMEOUT",
   "INVOCATION_FAILED", "SCREENSHOT_FAILED", "TRANSACTION_FAILED", "INTERNAL_ERROR"}

\* C15: every error code in a response that the server sends is one of the
\* thirteen codes of the taxonomy.
C15_CodesInTaxonomy ==
  \A r \in sent : r.kind = "response" /\ r.resp.code # "" => r.resp.code \in ErrorCodes

\* What the handling of a message that is no request must come to: one
\* failure response, and nothing else changed.
OneFailureNothingElse ==
  /\ \E r \in sent' : /\ sent' = sent \cup {r} /\ r \notin sent
                       /\ r.kind = "response" /\ ~r.resp.success
                       /\ r.conn = handled'.conn /\ r.st = "open"
  /\ UNCHANGED <<uiVars, stack, taskQueue, sock, socketToClientId, clients, running,
                 cfgVars, bcVars, recVars, crashed>>

\* C16 as stated: a text that does not parse, or whose type is missing or not
\* one of the seven, gets exactly one failure response and changes nothing.
C16_MalformedChangesNothing ==
  [][\A a \in Addrs, msg \in ProtocolMessages :
       (Receive(a, msg) /\ (~Parsable(msg) \/ WireType(msg) \notin KnownTypes))
       => OneFailureNothingElse]_vars

\* C16 for the messages that carry no transaction:true.
C16_MalformedChangesNothingUnlessTransaction ==
  [][\A a \in Addrs, msg \in ProtocolMessages :
       (/\ Receive(a, msg)
        /\ ~Transaction(msg)
        /\ (~Parsable(msg) \/ WireType(msg) \notin KnownTypes))
       => OneFailureNothingElse]_vars

\* A connection got a failure for its first message, which was no request,
\* and a success for its second message.
C16_Witness ==
  \E r1, r2 \in sent :
    /\ r1.kind = "response" /\ r1.req = 1 /\ r1.resp.code \in {"PARSE_ERROR", "INVALID_TYPE"}
    /\ r2.kind = "response" /\ r2.req = 2 /\ r2.resp.success
    /\ r1.conn = r2.conn /\ r1.addr = r2.addr

\* The deferred task at the head of the queue runs to its end.
Finishes == RunTask /\ done' # done

C18_HandlerErrorIsCaught ==
  /\ ~crashed
  /\ \A k \in DOMAIN done.log :
       done.log[k].by \in {"throws", "throwsOther"} => done.log[k].err = "INVOCATION_FAILED"

\* The deferred task at the head of the queue is a wait command of a
\* connected client, and its condition holds as the task starts.
WaitAlreadySatisfied ==
  /\ taskQueue # <<>>
  /\ LET t == Head(taskQueue) IN
     /\ socketToClientId[t.addr] # 0
     /\ t.kind = "cmd" /\ t.steps[1].cmd = "wait"
     /\ checkCondition(cache, t.steps[1])

\* C19: a wait whose condition holds when it is called returns success
\* without yielding, whatever its timeout: the task ends in the step that
\* started it, with no frame left on the stack.
C19_SatisfiedWaitReturnsAtOnce ==
  [][(RunTask /\ WaitAlreadySatisfied)
       => /\ done'.req = Head(taskQueue).id
          /\ done'.resp.success
          /\ stack' = stack]_vars

\* The wait of request id is on the stack, and its condition can never hold.
WaitingNever(id) ==
  \E k \in DOMAIN stack :
    /\ stack[k].kind = "cmd" /\ stack[k].req = id
    /\ stack[k].steps[stack[k].i] = WaitNever

\* C20: a wait whose condition never becomes true always terminates, with
\* TIMEOUT: it does not stay on the stack for ever.
C20_NeverTrueWaitTerminates ==
  \A id \in 1..MaxMsgs : WaitingNever(id) ~> ~WaitingNever(id)


\* The entries of q whose event type is not e, in order.
OtherTypes(q, e) == SelectSeq(q, LAMBDA x : x.eventType # e)

\* How often client c is listed in the recipients r.
Deliveries(r, c) == Cardinality({i \in DOMAIN r : r[i] = c})

\* C25: subscribing a client again with an identical (event type, filter)
\* pair changes neither index, and an event that matches is then delivered
\* to the client once.
C25_SubscribeIdempotent ==
  [][\A c \in ClientIds, e \in BcTypes, f \in BcFilters :
       (RegSubscribe(c, e, f) /\ Entry(e, f) \in Range(Entries(clientSubscriptions, c))) =>
         /\ UNCHANGED <<clientSubscriptions, eventSubscribers>>
         /\ \A data \in BcData :
              Deliveries(emitEvent(TRUE, BC, e, data), c) =
                IF \E x \in Range(clientSubscriptions[c]) :
                     x.eventType = e /\ matchesFilter(e, data, x.filter)
                THEN 1 ELSE 0]_vars

\* The last call subscribed a client a second time with the one pair it
\* already held, and the indices keep that single entry.
C25_Witness ==
  /\ handled.type = "subscribe"
  /\ Len(Entries(clientSubscriptions, handled.conn)) = 1
  /\ clientSubscriptions[handled.conn][1].filter # NoFilter

\* C26: unsubscribe(client, type) removes every subscription of that client
\* for that type and no other; unsubscribeAll(client) removes that client's
\* subscriptions and no other client's; and either call for a client or a type
\* that holds no subscription changes nothing.
C26_UnsubscribeRemovesExactly ==
  [][/\ \A c \in ClientIds, e \in BcTypes :
          RegUnsubscribe(c, e) =>
            /\ Entries(clientSubscriptions', c) = OtherTypes(Entries(clientSubscriptions, c), e)
            /\ \A d \in ClientIds \ {c} :
                 Entries(clientSubscriptions', d) = Entries(clientSubscriptions, d)
            /\ Members(eventSubscribers', e) = Members(eventSubscribers, e) \ {c}
            /\ \A t \in EventTypes \ {e} :
                 Members(eventSubscribers', t) = Members(eventSubscribers, t)
            /\ (\A x \in Range(Entries(clientSubscriptions, c)) : x.eventType # e)
                 => UNCHANGED <<clientSubscriptions, eventSubscribers>>
     /\ \A c \in ClientIds :
          RegUnsubscribeAll(c) =>
            /\ Entries(clientSubscriptions', c) = <<>>
            /\ \A d \in ClientIds \ {c} :
                 Entries(clientSubscriptions', d) = Entries(clientSubscriptions, d)
            /\ \A t \in EventTypes :
                 Members(eventSubscribers', t) = Members(eventSubscribers, t) \ {c}
            /\ c \notin DOMAIN clientSubscriptions
                 => UNCHANGED <<clientSubscriptions, eventSubscribers>>]_vars

\* An unsubscribe has just removed the entries of one type from a client
\* that keeps its entry of the other type, while the other client stays
\* subscribed to the removed type.
C26_Witness ==
  /\ handled.type = "unsubscribe!"
  /\ handled.conn \in DOMAIN clientSubscriptions
  /\ \E t \in BcTypes :
       /\ t \notin {x.eventType : x \in Range(clientSubscriptions[handled.conn])}
       /\ \E d \in ClientIds \ {handled.conn} : d \in Members(eventSubscribers, t)

\* The entries that the steps an execute() dispatched would add to a
\* recording: one per dispatched step, in order, less the skipped names.
RECURSIVE DispatchedEntries(_, _)
DispatchedEntries(steps, log) ==
  IF log = <<>> THEN <<>>
  ELSE LET st == steps[Head(log).step + 1]
           rest == DispatchedEntries(steps, Tail(log))
       IN IF st.cmd \in skipCommands THEN rest
          ELSE <<[command |-> st.cmd, success |-> Head(log).err = ""]>> \o rest

\* C23: the recording holds the commands dispatched while recording, those
\* dispatched as the steps of a transaction included: an execute() that runs
\* from start to end while Recording adds one entry per step it dispatched,
\* in dispatch order.
C23_RecordingHoldsEveryDispatch ==
  [][(RunTask /\ done' # done /\ recording) =>
       /\ Len(actions') = Len(actions) + Len(DispatchedEntries(done'.steps, done'.log))
       /\ \A k \in 1..Len(DispatchedEntries(done'.steps, done'.log)) :
            actions'[Len(actions) + k].command
              = DispatchedEntries(done'.steps, done'.log)[k].command]_vars

\* C24: start() while Recording and stop() while Idle change nothing: the
\* state, the recorded actions and both timestamps stay, and neither
\* recordingStarted nor recordingStopped is emitted.
C24_RedundantStartStopAreNoOps ==
  [][(/\ msgCount' # msgCount
      /\ \/ handled'.type = "record_start" /\ recording
         \/ handled'.type = "record_stop" /\ ~recording)
       => UNCHANGED <<recording, actions, startTime, endTime, recSignals>>]_vars

\* The second of two record_start messages has been handled, and the
\* recording that the first one began goes on.
C24_Witness ==
  /\ handled.type = "record_start"
  /\ handled.id = 2
  /\ recording
  /\ startTime = 1
  /\ recSignals = <<"recordingStarted">>

\* The connection that task t came in on is closed: the socket it arrived on
\* is no longer open, or its address now belongs to a later connection.
OriginClosed(t) == sock[t.addr].st # "open" \/ sock[t.addr].conn # t.origin

\* C30: a deferred task that starts after its connection has closed executes
\* nothing: no dispatch, no change of the widgets, the cache or the undo
\* stack, no frame, nothing recorded, no event and no response.
C30_ClosedBeforeStartIsSkipped ==
  [][(RunTask /\ OriginClosed(Head(taskQueue))) =>
       UNCHANGED <<uiVars, stack, sent, done, staleDeref, recVars, crashed, bcVars>>]_vars

\* A command was received, its connection closed, and its task has left the
\* queue without a response or an execution.
C30_Witness ==
  /\ handled.type = "command"
  /\ sock[handled.addr].st = "closed"
  /\ sock[handled.addr].conn = handled.conn
  /\ taskQueue = <<>> /\ stack = <<>>
  /\ done.req # handled.id
  /\ \A r \in sent : r.req # handled.id

\* The (target, property) pairs of the undo entries that the steps in log
\* pushed: one per set_property step that succeeded, in order.
RECURSIVE OwnEntries(_, _)
OwnEntries(steps, log) ==
  IF log = <<>> THEN <<>>
  ELSE LET st == steps[Head(log).step + 1]
           rest == OwnEntries(steps, Tail(log))
       IN IF st.cmd = "set_property" /\ Head(log).err = ""
          THEN <<(<<st.target, st.property>>)>> \o rest
          ELSE rest

\* C29: the rollback of a transaction runs exactly the undo entries that its
\* own steps pushed: when a transaction with rollbackOnFailure fails by the
\* timeout of a wait it was blocked in, the undo stack that its rollback is
\* about to run holds its own entries, in order, and no other.
C29_RollbackRunsOwnEntries ==
  [][(WaitTimeout /\ Top.kind = "tx" /\ Top.rb) =>
       [k \in DOMAIN undoStack |-> <<undoStack[k].w, undoStack[k].p>>]
         = OwnEntries(Top.steps, Top.log)]_vars

\* C27: for every selector for which find returns a widget e, a later
\* find(pathFor(e)) returns e again, whatever the shape of the tree: when the
\* last find returned e, its selector still resolves to e, and the next call
\* is find(pathFor(e)), that call returns e.
C27_PathRoundTrip ==
  [][(/\ found.widget \in LiveWidgets
      /\ resolveSelector(found.selector, topLevel) = found.widget
      /\ Find(PathSel(pathFor(found.widget))))
       => found'.widget = found.widget]_vars

\* C28: find never returns a destroyed widget; a cached entry whose widget
\* was destroyed is a miss: it is dropped and the selector is resolved afresh,
\* as is every selector after invalidateCache().
C28_DestroyedEntryIsMiss ==
  [][/\ \A sel \in FinderSelectors :
          Find(sel) =>
            /\ found'.widget = 0 \/ found'.widget \in LiveWidgets
            /\ (sel \notin DOMAIN finderCache \/ finderCache[sel] \notin LiveWidgets) =>
                 /\ found'.widget = resolveSelector(sel, topLevel)
                 /\ Cached(sel)' = found'.widget
                 /\ found'.widget = 0 => sel \notin DOMAIN finderCache'
     /\ InvalidateCache => \A sel \in FinderSelectors : Cached(sel)' = 0]_vars

\* The last find met the entry of a destroyed widget, dropped it, and
\* resolved the selector to a widget created since.
C28_Witness ==
  /\ found.dropped
  /\ ~found.hit
  /\ found.widget \in LiveWidgets
  /\ \E w \in DOMAIN tree :
       /\ ~tree[w].live /\ w < found.widget
       /\ tree[w].objectName = tree[found.widget].objectName

\* C21: a wait with condition stable succeeds only if there is an interval
\* of at least stability_ms that ends at the successful poll and in which
\* every poll that observed the bounds observed the same bounds: a change
\* restarts the interval.
C21_StableAfterQuietInterval ==
  (/\ done.kind = "cmd" /\ done.resp.success
   /\ done.steps[1].cmd = "wait" /\ done.steps[1].property = "stable") =>
    LET obs == done.polls
        n == Len(obs)
    IN /\ n > 0 /\ obs[n].geometry # NoGeometry
       /\ \E j \in 1..n :
            /\ obs[n].at - obs[j].at >= stabilityMs(done.steps[1])
            /\ \A k \in j..n :
                 obs[k].geometry # NoGeometry => obs[k].geometry = obs[n].geometry

\* A stable wait has succeeded after it saw the bounds change between two
\* of its polls.
C21_Witness ==
  /\ done.kind = "cmd" /\ done.resp.success
  /\ done.steps[1].property = "stable"
  /\ \E j, k \in DOMAIN done.polls :
       /\ j < k
       /\ done.polls[j].geometry # NoGeometry /\ done.polls[k].geometry # NoGeometry
       /\ done.polls[j].geometry # done.polls[k].geometry

\* C22: waitForSignal reports success exactly when the awaited signal fires
\* before the timeout timer, and a timeout exactly when the timer fires first:
\* the one that fires first decides, even if the other fires too before the
\* wait returns.
C22_FirstToFireDecides ==
  [][SignalReturn => (done'.resp.success <=> Top.first = "signal")]_vars

\* C33: the response to a command or transaction is written only to the
\* connection the request arrived on, never to another client's, also when
\* the originating connection closes during the execution and a new
\* connection is accepted before it completes.
C33_ResponseOnlyToOrigin ==
  \A r \in sent : r.kind = "response" => r.conn = r.origin

\* The responses written so far that carry request id.
ResponsesTo(id) == {r \in sent : r.kind = "response" /\ r.req = id}

\* Connection c is open.
StaysOpen(c) == \E a \in Addrs : sock[a].st = "open" /\ sock[a].conn = c

\* C31: every command or transaction received on a connection that stays open
\* is eventually answered on it with a response carrying its id; a response is
\* written only for a request that has none yet, by the execution of that
\* request as it finishes; and every response goes to a connection that
\* received the request it answers.
C31_EveryRequestAnsweredOnce ==
  /\ \A id \in 1..MaxMsgs, c \in 1..MaxConns :
       (handled.id = id /\ handled.conn = c /\ handled.type \in {"command", "transaction"})
         ~> (~StaysOpen(c) \/ \E r \in ResponsesTo(id) : r.conn = c)
  /\ [][\A r \in sent' \ sent :
          r.kind = "response" =>
            /\ ResponsesTo(r.req) = {}
            /\ \/ stack # <<>> /\ Top.req = r.req /\ stack' = Below
               \/ /\ taskQueue # <<>> /\ Head(taskQueue).id = r.req
                  /\ taskQueue' = Tail(taskQueue) /\ stack' = stack]_vars
  /\ [](\A r \in sent : r.kind = "response" => r.conn = r.origin)

\* The requests of connection c that were received and whose execution has
\* not finished: queued as deferred tasks, or blocked on the UI thread's stack.
Unfinished(c) ==
  {taskQueue[k].id : k \in {j \in DOMAIN taskQueue : taskQueue[j].origin = c}}
  \cup {stack[k].req : k \in {j \in DOMAIN stack : stack[j].kind # "modal" /\ stack[j].origin = c}}

\* C32: the messages of one connection take effect in the order of their
\* reception: when a record_stop, subscribe or unsubscribe message is acted on
\* and answered, every command or transaction received earlier on the same
\* connection has been executed.
C32_EffectsInReceptionOrder ==
  [][(handled' # handled /\ handled'.type \in {"record_stop", "subscribe", "unsubscribe"})
       => Unfinished(handled'.conn) = {}]_vars

\* C34: within a transaction the effect of step i is applied before step i+1
\* is dispatched, clicks included: when a transaction returns, a click step
\* that was followed by the dispatch of another step has been delivered to its
\* widget, no timer for it is left pending.
C34_StepEffectBeforeNextStep ==
  [][(done' # done /\ done'.kind = "tx") =>
       \A k \in DOMAIN done'.log :
         (done'.steps[k].cmd = "click" /\ done'.log[k].err = "" /\ k < Len(done'.log))
           => clicks'[done'.steps[k].target] = 0]_vars

\* C35: whenever no transaction is executing the undo stack is empty: a
\* command outside a transaction and a transaction that has ended, in
\* whichever way, leave no undo entry behind.
C35_UndoStackEmptyOutsideTransactions ==
  (\A k \in DOMAIN stack : stack[k].kind # "tx") => undoStack = <<>>

\* Some client holds a subscription to event type e.
Subscribes(e) ==
  \E c \in DOMAIN clientSubscriptions :
    \E x \in Range(clientSubscriptions[c]) : x.eventType = e

\* The distinct (target, property) pairs of the property_changed
\* subscriptions held.
SubscribedPairs ==
  {<<x.filter.target, x.filter.property>> :
     x \in {y \in UNION {Range(clientSubscriptions[c]) : c \in DOMAIN clientSubscriptions} :
              /\ y.eventType = "property_changed"
              /\ y.filter.target # "" /\ y.filter.property # ""}}

\* C36: after every subscribe, unsubscribe, disconnect and switch of
\* broadcasting, UI event tracking is active exactly when broadcasting is
\* enabled and some client subscribes to widget_created, widget_destroyed,
\* focus_changed or property_changed; the property poll timer runs exactly when
\* broadcasting is enabled and some client subscribes to property_changed, and
\* then there is exactly one watch for each distinct subscribed
\* (target, property) pair and no other; otherwise there is no watch.
C36_TrackingFollowsSubscriptions ==
  /\ uiEventTrackingActive <=>
       (enabled /\ \E e \in {"widget_created", "widget_destroyed", "focus_changed",
                             "property_changed"} : Subscribes(e))
  /\ propertyPollTimerActive <=> (enabled /\ Subscribes("property_changed"))
  /\ IF enabled /\ Subscribes("property_changed")
     THEN /\ Len(propertyWatches) = Cardinality(SubscribedPairs)
          /\ \A p \in SubscribedPairs :
               \E i \in DOMAIN propertyWatches :
                 propertyWatches[i].selector = p[1] /\ propertyWatches[i].property = p[2]
     ELSE propertyWatches = <<>>

\* The widget_destroyed events about widget w written to client c.
DestroyedEvents(w, c) ==
  {r \in sent : r.kind = "widget_destroyed" /\ r.resp.code = w /\ r.origin = c}

\* C37: the destruction of one widget brings each subscribed client at most
\* one widget_destroyed event, however often subscribes, unsubscribes and
\* disconnects have switched the lifecycle tracking off and on again while the
\* widget existed.
C37_OneDestroyedEventPerClient ==
  \A w \in Widgets, c \in 1..MaxConns : Cardinality(DestroyedEvents(w, c)) <= 1

\* A property_changed frame to client c that reports the recorded change
\* with its old and its new value.
Reported(c) ==
  \E r \in sent :
     /\ r.kind = "property_changed" /\ r.origin = c
     /\ r.widget = changed.widget /\ r.resp.code = changed.property
     /\ r.old = changed.old /\ r.new = changed.new

\* C38: a change of a watched property that persists is eventually reported,
\* with the old and the new value, to every client whose accepted
\* subscription was watching the property when it changed, whatever other
\* clients subscribe, unsubscribe or disconnect in the meantime (unless the
\* client itself gives the subscription up or the widget goes away).
C38_PersistentChangeReported ==
  \A c \in 1..MaxConns :
     (c \in changed.watchers)
       ~> \/ Reported(c)
          \/ c \notin Holders(changed.widget, changed.property)
          \/ ~alive[changed.widget]
          \/ prop[changed.widget][changed.property] # changed.new
          \/ ~enabled

\* C39: when the poll emits a property_changed event for a watch, a frame for
\* that event goes to every connected client that holds the filter
\* (target, property) the watch was created from, whatever form of selector
\* the target is.
C39_WatchEventReachesItsSubscriber ==
  [][onPropertyPollTimeout =>
       \A i \in DOMAIN propertyWatches :
          LET r == PollWatch(propertyWatches[i])
          IN r.emits =>
               \A c \in DOMAIN clients \cap DOMAIN clientSubscriptions :
                  Entry("property_changed", Filter(r.before.selector, r.before.property))
                      \in Range(clientSubscriptions[c])
                    => \E s \in sent' :
                          /\ s.kind = "property_changed" /\ s.origin = c
                          /\ s.selector = r.before.selector
                          /\ s.resp.code = r.before.property
                          /\ s.old = r.before.lastValue /\ s.new = r.value]_vars

\* C40: every find(selector) returns the widget (or the not-found outcome)
\* and the resolved path that resolving the selector against the tree as it
\* is at the call, without the cache, returns.
C40_FindEqualsUncachedResolution ==
  [][\A sel \in FinderSelectors :
        Find(sel) =>
          LET r == resolveSelector(sel, topLevel)
          IN /\ found'.widget = r
             /\ resolvedPath(sel, found'.widget, found'.hit) = resolvedPath(sel, r, FALSE)]_vars
====
